---- MODULE Spec2Model ----
(***************************************************************************)
(* Verification model of the scheduling engine of scheduler_app:           *)
(*   - the candidate ranking engine (src/scheduler.py, src/data_models.py) *)
(*   - the rotation generator (src/generate_vacations.py): the trial       *)
(*     selection of generate_schedule, one trial of attempt_generate, the  *)
(*     role derivation of load_people and the slack fill of                *)
(*     fill_extra_shifts                                                   *)
(*   - the vacation store (src/csv_store.py).                              *)
(*                                                                         *)
(* Conventions.                                                            *)
(*   Time is an integer number of hours since 2024-05-31 00:00; a date is  *)
(*   the number of whole days since 2024-05-31 (a Friday).                 *)
(*   Scores are Python floats in the code; the model keeps them exact as   *)
(*   integers scaled by ScoreScale, and rest multipliers as integers       *)
(*   scaled by 2 (all multipliers of the model are multiples of 0.5).      *)
(***************************************************************************)
EXTENDS Integers, Sequences, FiniteSets, TLC

VARIABLES
    assignments,          \* Mission.assignments of every mission: role -> list of person ids
    states,               \* Scheduler.states: person id -> PersonState.missions_assigned
    preferences,          \* the preference list the Scheduler was built from
    vacations,            \* the vacation list the Scheduler was built from
    rest_cap_hours,       \* Scheduler.rest_cap_hours (Campaign.rest_cap_hours)
    query,                \* arguments of the last get_candidates call still pending, or NoQuery
    ranked,               \* value returned by that get_candidates call
    repeated,             \* TRUE when that call repeated the call before it
    commits,              \* number of assign_to_mission calls made so far
    call,                 \* arguments of the last assign_to_mission call, or NoCall
    driven,               \* history: every commit so far committed a person that
                          \* get_candidates returns for that mission and role
    vcall,                \* arguments of the last add_vacation / remove_vacation call, or NoVCall
    people_in,            \* generate_schedule: the people argument
    futures,              \* generate_schedule: outcome of each submitted trial
    completed,            \* generate_schedule: trial indices in as_completed order
    successful_attempts,  \* generate_schedule: list of {'shifts', 'spread'}
    result,               \* generate_schedule: returned list of shifts
    gpc,                  \* generate_schedule: "idle", "running", then "returned"
    raw_rows,             \* load_people: the rows parse_csv returned
    loaded,               \* load_people: the list `people` built so far
    arg_people,           \* attempt_generate: argument people
    arg_requirements,     \* attempt_generate: argument requirements
    arg_days,             \* attempt_generate: argument days
    arg_alat_end_date,    \* attempt_generate: argument alat_end_date
    arg_boost,            \* attempt_generate: argument boost
    arg_boost_dates,      \* attempt_generate: argument boost_dates
    trial_shifts,         \* attempt_generate: local shifts
    trial_shift_counts,   \* attempt_generate: local shift_counts
    last_shift_date,      \* attempt_generate: local last_shift_date
    work_streaks,         \* attempt_generate: local work_streaks
    role_counts,          \* attempt_generate: local role_counts
    day_index,            \* attempt_generate: position of `for day in days`
    daily_reqs,           \* attempt_generate: local daily_reqs of the day
    assigned_today,       \* attempt_generate: local assigned_today
    assigned_units_today, \* attempt_generate: local assigned_units_today
    total_needed,         \* attempt_generate: local total_needed
    tpc,                  \* attempt_generate: "idle", "days", "fill", "returned", "raised"
    trial_success,        \* attempt_generate: second component of the returned tuple
    initial_shifts,       \* fill_extra_shifts: argument initial_shifts
    fill_people,          \* fill_extra_shifts: argument people
    fill_days_list,       \* fill_extra_shifts: argument days_list
    fill_alat_end_date,   \* fill_extra_shifts: argument alat_end_date
    target_min_vacation,  \* fill_extra_shifts: argument target_min_vacation
    max_boost_param,      \* fill_extra_shifts: argument max_boost_param
    people_vacation,      \* fill_extra_shifts: local people_vacation
    slack_people,         \* fill_extra_shifts: local slack_people
    current_shifts,       \* fill_extra_shifts: local current_shifts, then the returned list
    assignment_map,       \* fill_extra_shifts: local assignment_map
    boosted_days,         \* fill_extra_shifts: local boosted_days
    week_index,           \* fill_extra_shifts: position of `for wk, week_days in weeks.items()`
    target_days,          \* fill_extra_shifts: local target_days of the week
    target_index,         \* fill_extra_shifts: position of `for d_obj in target_days`
    general_index,        \* fill_extra_shifts: position of the general pass in days_list
    fpc,                  \* fill_extra_shifts: "idle", "weeks", "burst", "general", "returned"
    stored,               \* missions.csv: the assignments column, mission id -> dict
    target_date,          \* assign_cmd: argument target_date
    loaded_missions,      \* assign_cmd: the missions' assignments as load_missions returned them
    day_missions_left,    \* assign_cmd: sorted day_missions from the current mission on
    requests_left,        \* assign_cmd: the roles still to ask for, one per slot of `unfilled`
    changes_made,         \* assign_cmd: local changes_made
    apc                   \* assign_cmd: "idle", "missions", "ask", "choose", "done"

schedVars == <<assignments, states, preferences, vacations, rest_cap_hours,
               query, ranked, repeated, commits, call, driven, vcall>>
loadVars  == <<raw_rows, loaded>>
argVars   == <<arg_people, arg_requirements, arg_days, arg_alat_end_date,
               arg_boost, arg_boost_dates>>
localVars == <<trial_shifts, trial_shift_counts, last_shift_date, work_streaks,
               role_counts, day_index, daily_reqs, assigned_today,
               assigned_units_today, total_needed, tpc, trial_success>>
trialVars == <<argVars, localVars>>
schedulingVars == <<people_in, futures, completed, successful_attempts, result, gpc>>
fillArgVars == <<initial_shifts, fill_people, fill_days_list, fill_alat_end_date,
                 target_min_vacation, max_boost_param>>
fillLocalVars == <<people_vacation, slack_people, current_shifts, assignment_map,
                   boosted_days, week_index, target_days, target_index,
                   general_index, fpc>>
fillVars  == <<fillArgVars, fillLocalVars>>
cmdVars   == <<stored, target_date, loaded_missions, day_missions_left,
               requests_left, changes_made, apc>>
genVars   == <<schedulingVars, loadVars, trialVars, fillVars, cmdVars>>
vars      == <<schedVars, genVars>>

(***************************************************************************)
(* Bounds of the model.                                                    *)
(***************************************************************************)
MaxCommits == 2        \* assign_to_mission calls in a behaviour of Spec
MaxRankCommits == 1    \* assign_to_mission calls in a behaviour of SpecRank
MaxTries == 2          \* max_tries of generate_schedule
MaxShifts == 2         \* shifts in the schedule of one trial
MaxVacationCalls == 2  \* add_vacation / remove_vacation calls in a behaviour of SpecVac

(***************************************************************************)
(* Generic helpers.                                                        *)
(***************************************************************************)
Range(s) == { s[i] : i \in DOMAIN s }

Min(a, b) == IF a <= b THEN a ELSE b

Max(a, b) == IF a >= b THEN a ELSE b

RECURSIVE SumSeq(_)
SumSeq(s) == IF s = <<>> THEN 0 ELSE Head(s) + SumSeq(Tail(s))

RECURSIVE MaxSeq(_)
MaxSeq(s) == IF Len(s) = 1 THEN s[1] ELSE Max(Head(s), MaxSeq(Tail(s)))

RECURSIVE MinSeq(_)
MinSeq(s) == IF Len(s) = 1 THEN s[1] ELSE Min(Head(s), MinSeq(Tail(s)))

(***************************************************************************)
(* Strings.  TLC cannot look inside a string, so the strings whose         *)
(* characters the code inspects (mission names, prefer/avoid_mission       *)
(* targets) are spelled out, and str.lower and the substring test `in`     *)
(* are computed on the characters.  A date inside a name is one token.     *)
(***************************************************************************)
Chars(s) ==
    CASE s = "Base"    -> <<"B", "a", "s", "e">>
      [] s = "Patrol - 2024-05-31" ->
            <<"P", "a", "t", "r", "o", "l", " ", "-", " ", "2024-05-31">>
      [] s = "Gate"    -> <<"G", "a", "t", "e">>
      [] s = "Patrol - 2024-06-01" ->
            <<"P", "a", "t", "r", "o", "l", " ", "-", " ", "2024-06-01">>
      [] s = "Mess"    -> <<"M", "e", "s", "s">>
      [] s = "Brief"   -> <<"B", "r", "i", "e", "f">>
      [] s = "patrol"  -> <<"p", "a", "t", "r", "o", "l">>
      [] s = "GATE"    -> <<"G", "A", "T", "E">>
      [] s = "ss"      -> <<"s", "s">>
      [] OTHER         -> <<s>>

LowerChar(c) ==
    CASE c = "A" -> "a" [] c = "B" -> "b" [] c = "D" -> "d" [] c = "E" -> "e"
      [] c = "G" -> "g" [] c = "M" -> "m" [] c = "N" -> "n" [] c = "P" -> "p"
      [] c = "T" -> "t"
      [] OTHER -> c

Lower(cs) == [i \in DOMAIN cs |-> LowerChar(cs[i])]

\* Python: a in b, for strings
IsSubstring(a, b) ==
    \E k \in 0..(Len(b) - Len(a)) : \A i \in 1..Len(a) : b[k + i] = a[i]

\* Python: a < b for the person ids of the model (lexicographic order)
IdRank(pid) ==
    CASE pid = "ghost" -> 0
      [] pid = "p1"    -> 1
      [] pid = "p2"    -> 2
      [] pid = "p3"    -> 3

\* dt.date.fromisoformat: <<date>>, or <<>> where it raises ValueError
FromIsoformat(s) ==
    CASE s = "2024-05-31" -> <<0>>
      [] s = "2024-06-01" -> <<1>>
      [] s = "2024-06-02" -> <<2>>
      [] OTHER            -> <<>>

\* float(): <<twice the value parsed>>, or <<>> where it raises ValueError
ParseFloat2(s) ==
    CASE s = "0"   -> <<0>>
      [] s = "0.5" -> <<1>>
      [] s = "1"   -> <<2>>
      [] s = "1.5" -> <<3>>
      [] s = "2"   -> <<4>>
      [] s = "-1"  -> <<-2>>
      [] s = "-2"  -> <<-4>>
      [] s = "-3"  -> <<-6>>
      [] OTHER     -> <<>>

\* datetime.date() of a time, and date.weekday() (Monday = 0)
DateOf(t) == t \div 24

Weekday(d) == (4 + d) % 7

(***************************************************************************)
(* Domain data: the people and the missions the Scheduler is built from.   *)
(***************************************************************************)
\* Optional[dt.date]: <<>> is None, <<d>> the date d
None == <<>>

Roles == {"commander", "soldier"}

\* the `people` argument, in order (the order of the states dict)
People == <<
    [person_id |-> "p3", role |-> "soldier",   unit |-> "B", secondary_roles |-> <<>>],
    [person_id |-> "p1", role |-> "commander", unit |-> "A", secondary_roles |-> <<"soldier">>],
    [person_id |-> "p2", role |-> "soldier",   unit |-> "A", secondary_roles |-> <<>>] >>

PersonIds == { People[i].person_id : i \in DOMAIN People }

\* a person id no Person record carries
AnyIds == PersonIds \cup {"ghost"}

PersonOf(pid) == People[CHOOSE i \in DOMAIN People : People[i].person_id = pid]

\* roles_required, in the order of the dict
Need(role, required) == [role |-> role, required |-> required]

\* the `missions` argument: the rows of missions.csv as load_missions builds
\* them; the two patrols come from one continuous template, which names them
\* f"{template.name} - {start_datetime.date()}"
Missions == <<
    [mission_id |-> 1, name |-> "Base", start |-> 0, end |-> 20,
     roles_required |-> <<Need("commander", 1), Need("soldier", 1)>>,
     status |-> "planned", continuous |-> FALSE],
    [mission_id |-> 2, name |-> "Patrol - 2024-05-31", start |-> 20, end |-> 32,
     roles_required |-> <<Need("commander", 1), Need("soldier", 2)>>,
     status |-> "planned", continuous |-> TRUE],
    [mission_id |-> 3, name |-> "Gate", start |-> 32, end |-> 40,
     roles_required |-> <<Need("soldier", 1)>>,
     status |-> "planned", continuous |-> FALSE],
    [mission_id |-> 4, name |-> "Patrol - 2024-06-01", start |-> 44, end |-> 52,
     roles_required |-> <<Need("commander", 1), Need("soldier", 2)>>,
     status |-> "planned", continuous |-> TRUE],
    [mission_id |-> 5, name |-> "Mess", start |-> 30, end |-> 44,
     roles_required |-> <<Need("soldier", 1)>>,
     status |-> "planned", continuous |-> TRUE],
    [mission_id |-> 6, name |-> "Brief", start |-> 32, end |-> 32,
     roles_required |-> <<Need("commander", 1)>>,
     status |-> "completed", continuous |-> FALSE] >>

MissionIds == DOMAIN Missions

MissionOf(mid) == Missions[mid]

\* Mission.duration_hours
duration_hours(m) == m.end - m.start

\* Campaign.rest_cap_hours default
DefaultRestCap == 12

(***************************************************************************)
(* The data files a Scheduler is built from: preferences.csv,              *)
(* vacations.csv and the campaign's rest cap.                              *)
(***************************************************************************)
Pref(pid, type, target, priority, expires) ==
    [person_id |-> pid, type |-> type, target |-> target,
     priority |-> priority, expires |-> expires]

Vac(pid, date) == [person_id |-> pid, date |-> date, description |-> "leave"]

Configs == <<
    \* 1: no preference, no vacation
    [preferences |-> <<>>, vacations |-> <<>>, rest_cap_hours |-> DefaultRestCap],
    \* 2: rest multipliers (malformed, expiring, permanent) and must_vacation_date
    [preferences |-> <<
        Pref("p1", "rest_multiplier", "abc", "medium", None),
        Pref("p1", "rest_multiplier", "0.5", "medium", <<0>>),
        Pref("p1", "rest_multiplier", "2", "medium", None),
        Pref("p2", "must_vacation_date", "2024-06-01", "medium", None),
        Pref("p3", "must_vacation_date", "2024-06-01", "high", <<0>>),
        Pref("p3", "must_vacation_date", "junk", "high", None),
        Pref("p3", "must_vacation_date", "2024-05-31", "low", <<0>>) >>,
     vacations |-> << Vac("p2", 0), Vac("p1", 1) >>,
     rest_cap_hours |-> DefaultRestCap],
    \* 3: zero and negative rest multipliers, and the scoring preferences
    [preferences |-> <<
        Pref("p3", "rest_multiplier", "-2", "medium", None),
        Pref("p2", "rest_multiplier", "-3", "medium", <<0>>),
        Pref("p1", "rest_multiplier", "0", "medium", None),
        Pref("p1", "pair_with", "p2", "high", None),
        Pref("p2", "avoid_person", "p1", "low", None),
        Pref("p3", "prefer_mission", "patrol", "medium", None),
        Pref("p2", "avoid_mission", "GATE", "bogus", None),
        Pref("p1", "prefer_weekend", "", "low", None),
        Pref("p3", "prefer_weekday", "", "high", <<0>>) >>,
     vacations |-> << Vac("p3", 1), Vac("p3", 0), Vac("p2", 1) >>,
     rest_cap_hours |-> DefaultRestCap] >>

(***************************************************************************)
(* src/data_models.py                                                      *)
(***************************************************************************)
\* Person.can_fill_role
can_fill_role(person, role) ==
    person.role = role \/ role \in Range(person.secondary_roles)

\* fault: the expiry date itself no longer counts as active
is_active_strict(pref, on_date) ==
    IF pref.expires = None THEN TRUE ELSE on_date < pref.expires[1]

\* Preference.is_active
is_active(pref, on_date) ==
    IF pref.expires = None THEN TRUE ELSE on_date <= pref.expires[1]

\* Preference.priority_weight, times 2
priority_weight2(pref) ==
    CASE pref.priority = "low"    -> 1
      [] pref.priority = "medium" -> 2
      [] pref.priority = "high"   -> 4
      [] OTHER                    -> 2

\* Mission.all_assigned_people, as a set
all_assigned_people(asg) == UNION { Range(asg[r]) : r \in DOMAIN asg }

\* fault: the membership test of assign_person left out
assign_person_always_append(asg, role, person_id) ==
    LET withRole == IF role \in DOMAIN asg THEN asg ELSE (role :> <<>>) @@ asg
    IN  [withRole EXCEPT ![role] = Append(@, person_id)]

\* Mission.assign_person: the mission's assignments dict afterwards
assign_person(asg, role, person_id) ==
    LET withRole == IF role \in DOMAIN asg THEN asg ELSE (role :> <<>>) @@ asg
    IN  IF person_id \in Range(withRole[role]) THEN withRole
        ELSE [withRole EXCEPT ![role] = Append(@, person_id)]

(***************************************************************************)
(* src/scheduler.py: PersonState and the Scheduler's queries.              *)
(***************************************************************************)
\* VACATION_PENALTY
VACATION_PENALTY == 10000

\* Scores are kept times ScoreScale: 2 for the priority weights (0.5), 6 for
\* the ratio hours / (vacations + 1) and 6 for the average over a role group.
ScoreScale == 2 * 6 * 6

\* self.states[person_id]
StateOf(person_id) ==
    [person |-> PersonOf(person_id), missions_assigned |-> states[person_id]]

\* the PersonState objects in the order of self.states.values()
AllStates == [i \in DOMAIN People |-> StateOf(People[i].person_id)]

\* self.preferences.get(person_id, [])
preferences_of(person_id) ==
    SelectSeq(preferences, LAMBDA p : p.person_id = person_id)

\* self.vacation_counts.get(person_id, 0)
vacation_counts(person_id) ==
    Len(SelectSeq(vacations, LAMBDA v : v.person_id = person_id))

\* PersonState.total_hours
total_hours(state) ==
    SumSeq([i \in DOMAIN state.missions_assigned |->
               duration_hours(MissionOf(state.missions_assigned[i]))])

\* PersonState.last_mission_end (only called with missions assigned)
last_mission_end(state) ==
    MaxSeq([i \in DOMAIN state.missions_assigned |->
               MissionOf(state.missions_assigned[i]).end])

\* PersonState.is_assigned_to
is_assigned_to(state, mission) ==
    \E i \in DOMAIN state.missions_assigned :
        MissionOf(state.missions_assigned[i]).mission_id = mission.mission_id

\* fault: the date left out of the lookup
is_on_vacation_any_date(person_id, date) ==
    \E i \in DOMAIN vacations : vacations[i].person_id = person_id

\* Scheduler.is_on_vacation
is_on_vacation(person_id, date) ==
    \E i \in DOMAIN vacations :
        vacations[i].person_id = person_id /\ vacations[i].date = date

\* fault: `except ValueError: return 1.0` -- the first active rest_multiplier
\* preference decides even when its target does not parse
get_rest_multiplier2_default_on_malformed(person_id, date) ==
    LET active == SelectSeq(preferences_of(person_id),
                     LAMBDA p : p.type = "rest_multiplier" /\ is_active(p, date))
    IN  IF active = <<>> \/ ParseFloat2(active[1].target) = <<>> THEN 2
        ELSE ParseFloat2(active[1].target)[1]

\* Scheduler.get_rest_multiplier, times 2
get_rest_multiplier2(person_id, date) ==
    LET usable == SelectSeq(preferences_of(person_id),
                     LAMBDA p : /\ p.type = "rest_multiplier"
                                /\ is_active(p, date)
                                /\ ParseFloat2(p.target) # <<>>)
    IN  IF usable = <<>> THEN 2 ELSE ParseFloat2(usable[1].target)[1]

\* Scheduler.has_must_vacation
has_must_vacation(person_id, date) ==
    LET ps == preferences_of(person_id)
    IN  \E i \in DOMAIN ps :
            /\ ps[i].type = "must_vacation_date"
            /\ is_active(ps[i], date)
            /\ FromIsoformat(ps[i].target) # <<>>
            /\ FromIsoformat(ps[i].target)[1] = date

\* fault: the mission's start compared with the assigned mission's start
_has_overlap_start_vs_start(state, mission) ==
    \E i \in DOMAIN state.missions_assigned :
        LET assigned == MissionOf(state.missions_assigned[i])
        IN  ~(mission.end <= assigned.start \/ mission.start >= assigned.start)

\* fault: a slot that touches an assigned slot counted as overlapping
_has_overlap_touching(state, mission) ==
    \E i \in DOMAIN state.missions_assigned :
        LET assigned == MissionOf(state.missions_assigned[i])
        IN  ~(mission.end < assigned.start \/ mission.start > assigned.end)

\* Scheduler._has_overlap
_has_overlap(state, mission) ==
    \E i \in DOMAIN state.missions_assigned :
        LET assigned == MissionOf(state.missions_assigned[i])
        IN  ~(mission.end <= assigned.start \/ mission.start >= assigned.end)

\* fault: the rest multiplier left out of the rest needed
_has_enough_rest_no_multiplier(state, mission) ==
    IF state.missions_assigned = <<>> THEN TRUE
    ELSE
        LET last_end == last_mission_end(state)
            first == CHOOSE i \in DOMAIN state.missions_assigned :
                        /\ MissionOf(state.missions_assigned[i]).end = last_end
                        /\ \A j \in 1..(i - 1) :
                              MissionOf(state.missions_assigned[j]).end # last_end
            last_mission == MissionOf(state.missions_assigned[first])
        IN  mission.start >= last_end + Min(duration_hours(last_mission), rest_cap_hours)

\* fault: the rest bound made exclusive (start > rest_end)
_has_enough_rest_exclusive(state, mission) ==
    IF state.missions_assigned = <<>> THEN TRUE
    ELSE
        LET last_end == last_mission_end(state)
            first == CHOOSE i \in DOMAIN state.missions_assigned :
                        /\ MissionOf(state.missions_assigned[i]).end = last_end
                        /\ \A j \in 1..(i - 1) :
                              MissionOf(state.missions_assigned[j]).end # last_end
            last_mission == MissionOf(state.missions_assigned[first])
            rest_multiplier2 ==
                get_rest_multiplier2(state.person.person_id, DateOf(mission.start))
            rest_needed2 ==
                Min(duration_hours(last_mission), rest_cap_hours) * rest_multiplier2
        IN  2 * mission.start > 2 * last_end + rest_needed2

\* fault: a mission that ends before the last assigned mission starts is let
\* through, the rest being owed only after the last mission
_has_enough_rest_after_last_only(state, mission) ==
    IF state.missions_assigned = <<>> THEN TRUE
    ELSE
        LET last_end == last_mission_end(state)
            first == CHOOSE i \in DOMAIN state.missions_assigned :
                        /\ MissionOf(state.missions_assigned[i]).end = last_end
                        /\ \A j \in 1..(i - 1) :
                              MissionOf(state.missions_assigned[j]).end # last_end
            last_mission == MissionOf(state.missions_assigned[first])
            rest_multiplier2 ==
                get_rest_multiplier2(state.person.person_id, DateOf(mission.start))
            rest_needed2 ==
                Min(duration_hours(last_mission), rest_cap_hours) * rest_multiplier2
        IN  \/ mission.end <= last_mission.start
            \/ 2 * mission.start >= 2 * last_end + rest_needed2

\* Scheduler._has_enough_rest.  rest_end = last_end + rest_needed hours and
\* rest_needed = min(duration, cap) * multiplier: both sides are doubled.
_has_enough_rest(state, mission) ==
    IF state.missions_assigned = <<>> THEN TRUE
    ELSE
        LET last_end == last_mission_end(state)
            first == CHOOSE i \in DOMAIN state.missions_assigned :
                        /\ MissionOf(state.missions_assigned[i]).end = last_end
                        /\ \A j \in 1..(i - 1) :
                              MissionOf(state.missions_assigned[j]).end # last_end
            last_mission == MissionOf(state.missions_assigned[first])
            rest_multiplier2 ==
                get_rest_multiplier2(state.person.person_id, DateOf(mission.start))
            mission_duration == duration_hours(last_mission)
            rest_needed2 == Min(mission_duration, rest_cap_hours) * rest_multiplier2
        IN  2 * mission.start >= 2 * last_end + rest_needed2

\* Scheduler._calculate_fairness, times ScoreScale
_calculate_fairness(state, role) ==
    LET role_states == SelectSeq(AllStates, LAMBDA s : s.person.role = role)
        \* 6 * hours / (vacations + 1)
        ratio6(s) == (total_hours(s) * 6) \div (vacation_counts(s.person.person_id) + 1)
        n == Len(role_states)
        sum6 == SumSeq([i \in DOMAIN role_states |-> ratio6(role_states[i])])
    IN  IF n <= 1 THEN 0
        ELSE Max(0, sum6 * (6 \div n) - 6 * ratio6(state)) * 20

\* Scheduler._calculate_preference_score, times ScoreScale
_calculate_preference_score(state, mission, already_assigned) ==
    LET ps == preferences_of(state.person.person_id)
        mission_date == DateOf(mission.start)
        name == Lower(Chars(mission.name))
        term(pref) ==
            LET weight2 == priority_weight2(pref)
            IN  IF ~is_active(pref, mission_date) THEN 0
                ELSE CASE pref.type = "pair_with" ->
                            IF pref.target \in already_assigned THEN -(20 * weight2) ELSE 0
                       [] pref.type = "avoid_person" ->
                            IF pref.target \in already_assigned THEN 50 * weight2 ELSE 0
                       [] pref.type = "prefer_mission" ->
                            IF IsSubstring(Lower(Chars(pref.target)), name)
                            THEN -(15 * weight2) ELSE 0
                       [] pref.type = "avoid_mission" ->
                            IF IsSubstring(Lower(Chars(pref.target)), name)
                            THEN 30 * weight2 ELSE 0
                       [] pref.type = "prefer_weekend" ->
                            IF Weekday(mission_date) >= 5 THEN -(10 * weight2) ELSE 0
                       [] pref.type = "prefer_weekday" ->
                            IF Weekday(mission_date) < 5 THEN -(10 * weight2) ELSE 0
                       [] OTHER -> 0
    IN  SumSeq([i \in DOMAIN ps |-> term(ps[i])]) * (ScoreScale \div 2)

\* Scheduler._calculate_score: the CandidateScore, every float times ScoreScale
_calculate_score(state, mission, role, already_assigned) ==
    LET person == state.person
        mission_date == DateOf(mission.start)
        vacation_penalty ==
            IF is_on_vacation(person.person_id, mission_date)
            THEN VACATION_PENALTY * ScoreScale ELSE 0
        fairness_score == _calculate_fairness(state, person.role)
        preference_score == _calculate_preference_score(state, mission, already_assigned)
        same_unit == Cardinality({ pid \in already_assigned :
                        pid \in PersonIds /\ PersonOf(pid).unit = person.unit })
        unit_cohesion ==
            IF already_assigned # {} /\ same_unit = 0 THEN 5 * ScoreScale ELSE 0
        role_match == IF person.role # role THEN 10 * ScoreScale ELSE 0
    IN  [person |-> person.person_id,
         total_score |-> vacation_penalty + fairness_score + preference_score
                           + unit_cohesion + role_match,
         vacation_penalty |-> vacation_penalty,
         fairness_score |-> fairness_score,
         preference_score |-> preference_score,
         unit_cohesion |-> unit_cohesion,
         role_match |-> role_match]

\* fault: the already_assigned test left out
passes_hard_constraints_ignoring_already(state, mission, role, already_assigned) ==
    /\ can_fill_role(state.person, role)
    /\ ~has_must_vacation(state.person.person_id, DateOf(mission.start))
    /\ ~_has_overlap(state, mission)
    /\ _has_enough_rest(state, mission)

\* the hard constraints of get_candidates: TRUE when no `continue` is taken
passes_hard_constraints(state, mission, role, already_assigned) ==
    /\ can_fill_role(state.person, role)
    /\ state.person.person_id \notin already_assigned
    /\ ~has_must_vacation(state.person.person_id, DateOf(mission.start))
    /\ ~_has_overlap(state, mission)
    /\ _has_enough_rest(state, mission)

\* fault: the sort key without the person id
candidate_key_less_score_only(a, b) == a.total_score < b.total_score

\* the sort key of get_candidates: (c.total_score, c.person.person_id)
candidate_key_less(a, b) ==
    \/ a.total_score < b.total_score
    \/ a.total_score = b.total_score /\ IdRank(a.person) < IdRank(b.person)

\* list.sort (stable) with that key
RECURSIVE InsertCandidate(_, _)
InsertCandidate(s, x) ==
    IF s = <<>> THEN <<x>>
    ELSE IF candidate_key_less(x, Head(s)) THEN <<x>> \o s
         ELSE <<Head(s)>> \o InsertCandidate(Tail(s), x)

RECURSIVE SortCandidates(_)
SortCandidates(s) ==
    IF s = <<>> THEN <<>>
    ELSE InsertCandidate(SortCandidates(SubSeq(s, 1, Len(s) - 1)), s[Len(s)])

\* Scheduler.get_candidates
get_candidates(mission, role, already_assigned) ==
    LET eligible == SelectSeq(AllStates,
                       LAMBDA s : passes_hard_constraints(s, mission, role, already_assigned))
        candidates == [i \in DOMAIN eligible |->
                          _calculate_score(eligible[i], mission, role, already_assigned)]
    IN  SortCandidates(candidates)

\* the people a ranking holds
PersonsIn(cands) == { cands[i].person : i \in DOMAIN cands }

(***************************************************************************)
(* src/scheduler.py: the operations.                                       *)
(***************************************************************************)
NoQuery == [mission |-> 0, role |-> "none", already_assigned |-> {}]

NoCall == [mission |-> 0, role |-> "none", person_id |-> "none"]

NoVCall == [op |-> "none", person_id |-> "none", date |-> 0, description |-> "", seq |-> 0]

\* fault: the test `not state.is_assigned_to(mission)` inverted
states_after_assign_if_assigned(mission, person_id) ==
    IF person_id \in PersonIds /\ is_assigned_to(StateOf(person_id), mission)
    THEN [states EXCEPT ![person_id] = Append(@, mission.mission_id)]
    ELSE states

\* assign_to_mission, second half: self.states afterwards
states_after_assign(mission, person_id) ==
    IF person_id \in PersonIds /\ ~is_assigned_to(StateOf(person_id), mission)
    THEN [states EXCEPT ![person_id] = Append(@, mission.mission_id)]
    ELSE states

\* Scheduler.assign_to_mission(mission, role, person_id): the Scheduler and
\* the mission afterwards
assign_to_mission(mission_id, role, person_id) ==
    LET mission == MissionOf(mission_id)
    IN  /\ assignments' = [assignments EXCEPT
                              ![mission_id] = assign_person(@, role, person_id)]
        /\ states' = states_after_assign(mission, person_id)
        /\ commits' = commits + 1
        /\ call' = [mission |-> mission_id, role |-> role, person_id |-> person_id]
        /\ driven' = (driven /\ person_id \in PersonsIn(get_candidates(mission, role, {})))
        /\ query' = NoQuery
        /\ ranked' = <<>>
        /\ repeated' = FALSE
        /\ UNCHANGED <<preferences, vacations, rest_cap_hours, vcall>>

\* a call of assign_to_mission on its own
AssignToMission(mission_id, role, person_id) ==
    /\ assign_to_mission(mission_id, role, person_id)
    /\ UNCHANGED genVars

\* fault: get_candidates books the mission for its best candidate
GetCandidatesBooking(mission_id, role, already_assigned) ==
    LET q == [mission |-> mission_id, role |-> role,
              already_assigned |-> already_assigned]
        found == get_candidates(MissionOf(mission_id), role, already_assigned)
    IN  /\ query = NoQuery \/ (query = q /\ ~repeated)
        /\ query' = q
        /\ ranked' = found
        /\ repeated' = (query = q)
        /\ states' = IF found = <<>> THEN states
                     ELSE [states EXCEPT ![found[1].person] = Append(@, mission_id)]
        /\ UNCHANGED <<assignments, preferences, vacations, rest_cap_hours,
                       commits, call, driven, vcall>>
        /\ UNCHANGED genVars

\* Scheduler.get_candidates(mission, role, already_assigned).  The call is made
\* on the state the last commit left, or repeats the pending call once (a
\* ranking reads the scheduler and writes nothing, so a call with other
\* arguments after a pending one reaches no further state).
GetCandidates(mission_id, role, already_assigned) ==
    LET q == [mission |-> mission_id, role |-> role,
              already_assigned |-> already_assigned]
    IN  /\ query = NoQuery \/ (query = q /\ ~repeated)
        /\ query' = q
        /\ ranked' = get_candidates(MissionOf(mission_id), role, already_assigned)
        /\ repeated' = (query = q)
        /\ UNCHANGED <<assignments, states, preferences, vacations, rest_cap_hours,
                       commits, call, driven, vcall>>
        /\ UNCHANGED genVars

\* Scheduler.__init__ over missions that carry no assignment yet
SchedInit ==
    /\ \E c \in DOMAIN Configs :
          /\ preferences = Configs[c].preferences
          /\ vacations = Configs[c].vacations
          /\ rest_cap_hours = Configs[c].rest_cap_hours
    /\ assignments = [m \in MissionIds |-> <<>>]
    /\ states = [p \in PersonIds |-> <<>>]
    /\ query = NoQuery
    /\ ranked = <<>>
    /\ repeated = FALSE
    /\ commits = 0
    /\ call = NoCall
    /\ driven = TRUE
    /\ vcall = NoVCall

GenIdle ==
    /\ people_in = <<>>
    /\ futures = <<>>
    /\ completed = <<>>
    /\ successful_attempts = <<>>
    /\ result = <<>>
    /\ gpc = "idle"

\* load_people is not running
LoadIdle ==
    /\ raw_rows = <<>>
    /\ loaded = <<>>

\* attempt_generate is not running
TrialIdle ==
    /\ arg_people = <<>>
    /\ arg_requirements = <<>>
    /\ arg_days = <<>>
    /\ arg_alat_end_date = <<>>
    /\ arg_boost = 0
    /\ arg_boost_dates = {}
    /\ trial_shifts = <<>>
    /\ trial_shift_counts = <<>>
    /\ last_shift_date = <<>>
    /\ work_streaks = <<>>
    /\ role_counts = <<>>
    /\ day_index = 0
    /\ daily_reqs = <<>>
    /\ assigned_today = {}
    /\ assigned_units_today = {}
    /\ total_needed = 0
    /\ tpc = "idle"
    /\ trial_success = FALSE

\* fill_extra_shifts is not running
FillIdle ==
    /\ initial_shifts = <<>>
    /\ fill_people = <<>>
    /\ fill_days_list = <<>>
    /\ fill_alat_end_date = <<>>
    /\ target_min_vacation = 0
    /\ max_boost_param = 0
    /\ people_vacation = <<>>
    /\ slack_people = <<>>
    /\ current_shifts = <<>>
    /\ assignment_map = <<>>
    /\ boosted_days = <<>>
    /\ week_index = 0
    /\ target_days = <<>>
    /\ target_index = 0
    /\ general_index = 0
    /\ fpc = "idle"

\* assign_cmd is not running
CmdIdle ==
    /\ stored = <<>>
    /\ target_date = 0
    /\ loaded_missions = <<>>
    /\ day_missions_left = <<>>
    /\ requests_left = <<>>
    /\ changes_made = FALSE
    /\ apc = "idle"

(***************************************************************************)
(* Spec: any sequence of assign_to_mission calls on one Scheduler.         *)
(***************************************************************************)
Init == SchedInit /\ GenIdle /\ LoadIdle /\ TrialIdle /\ FillIdle /\ CmdIdle

Next ==
    \E m \in MissionIds, r \in Roles, p \in AnyIds :
        commits < MaxCommits /\ AssignToMission(m, r, p)

Spec == Init /\ [][Next]_vars

(***************************************************************************)
(* SpecRank: the way assign_cmd drives the engine.  get_candidates is      *)
(* called with any arguments; a commit commits one of the candidates the   *)
(* pending call returned, to the mission and role that call was made for.  *)
(***************************************************************************)
\* assign_cmd: selected = candidates[choice - 1];
\*             scheduler.assign_to_mission(mission, role, selected.person.person_id)
AssignSelected(choice) ==
    /\ query # NoQuery
    /\ choice \in DOMAIN ranked
    /\ AssignToMission(query.mission, query.role, ranked[choice].person)

RankCommit ==
    \E choice \in 1..Len(People) :
        commits < MaxRankCommits /\ AssignSelected(choice)

RankQuery ==
    \E m \in MissionIds, r \in Roles, a \in SUBSET PersonIds :
        GetCandidates(m, r, a)

NextRank == RankCommit \/ RankQuery

SpecRank == Init /\ [][NextRank]_vars

(***************************************************************************)
(* Properties of the ranking (checked under SpecRank).                     *)
(***************************************************************************)
Pending == query # NoQuery

QMission == MissionOf(query.mission)

Returned == PersonsIn(ranked)

\* C1: get_candidates never returns a person whose capability set (primary
\* role or secondary roles) lacks the role asked for, nor a person whose id
\* is in the already_assigned set.
C1_CapableAndNotAlreadyAssigned ==
    Pending =>
        \A i \in DOMAIN ranked :
            LET person == PersonOf(ranked[i].person)
            IN  /\ \/ person.role = query.role
                   \/ \E k \in DOMAIN person.secondary_roles :
                          person.secondary_roles[k] = query.role
                /\ ranked[i].person \notin query.already_assigned

\* a ranking for soldier that returns p3 alone because p1 and p2, both able
\* to fill the role, are in already_assigned
C1_Witness ==
    /\ Pending
    /\ query.role = "soldier"
    /\ query.already_assigned = {"p1", "p2"}
    /\ Returned = {"p3"}

\* C2: the list returned is sorted non-decreasing by total score, two
\* candidates of equal score are in ascending order of person id, and every
\* person passing the hard constraints appears exactly once (nobody else).
C2_SortedByScoreThenId ==
    Pending =>
        /\ \A i, j \in DOMAIN ranked :
              i < j =>
                /\ ranked[i].total_score <= ranked[j].total_score
                /\ ranked[i].total_score = ranked[j].total_score
                      => IdRank(ranked[i].person) < IdRank(ranked[j].person)
        /\ \A p \in PersonIds :
              Cardinality({ i \in DOMAIN ranked : ranked[i].person = p })
                = IF passes_hard_constraints(StateOf(p), QMission, query.role,
                                             query.already_assigned)
                  THEN 1 ELSE 0

\* three candidates, the first two tied on score, the third strictly worse
C2_Witness ==
    /\ Pending
    /\ Len(ranked) = 3
    /\ ranked[1].total_score = ranked[2].total_score
    /\ ranked[2].total_score < ranked[3].total_score

\* The rest bound of person p for the pending mission, doubled:
\* 2 * (E + min(D, cap) * multiplier), E the latest end among the missions
\* assigned to p, D the duration of the mission ending at E (of the one
\* assigned first, should several end at E), multiplier the value of the
\* first rest_multiplier preference of p that is active on the mission's date
\* and numeric, 1.0 without one.
RestBound2(p) ==
    LET held == states[p]
        E == CHOOSE e \in { MissionOf(held[i]).end : i \in DOMAIN held } :
                \A i \in DOMAIN held : MissionOf(held[i]).end <= e
        k == CHOOSE i \in DOMAIN held :
                /\ MissionOf(held[i]).end = E
                /\ \A j \in DOMAIN held : MissionOf(held[j]).end = E => i <= j
        D == MissionOf(held[k]).end - MissionOf(held[k]).start
        date == DateOf(QMission.start)
        own == { i \in DOMAIN preferences :
                    /\ preferences[i].person_id = p
                    /\ preferences[i].type = "rest_multiplier"
                    /\ (preferences[i].expires = None \/ date <= preferences[i].expires[1])
                    /\ ParseFloat2(preferences[i].target) # <<>> }
        mult2 == IF own = {} THEN 2
                 ELSE ParseFloat2(preferences[CHOOSE i \in own :
                                     \A j \in own : i <= j].target)[1]
    IN  2 * E + (IF D <= rest_cap_hours THEN D ELSE rest_cap_hours) * mult2

\* every hard constraint of the pending call but the rest constraint
PassesAllButRest(p) ==
    /\ can_fill_role(PersonOf(p), query.role)
    /\ p \notin query.already_assigned
    /\ ~has_must_vacation(p, DateOf(QMission.start))
    /\ ~_has_overlap(StateOf(p), QMission)

\* C5: a person holding assigned missions is left out of the ranking of every
\* mission that starts before E + min(D, cap) * multiplier, and the rest
\* filter does not leave them out of a mission starting exactly at, or after,
\* that instant.
C5_RestBoundary ==
    Pending =>
        \A p \in PersonIds :
            states[p] # <<>> =>
                /\ 2 * QMission.start < RestBound2(p) => p \notin Returned
                /\ (2 * QMission.start >= RestBound2(p) /\ PassesAllButRest(p))
                      => p \in Returned

\* a person who needs a positive rest is returned for a mission starting
\* exactly at the rest bound, and a call for a mission starting earlier, and
\* overlapping nothing, left them out
C5_Witness ==
    /\ Pending
    /\ \E p \in PersonIds :
          /\ states[p] # <<>>
          /\ 2 * QMission.start = RestBound2(p)
          /\ RestBound2(p) > 2 * last_mission_end(StateOf(p))
          /\ p \in Returned

\* C6: a person with a must_vacation_date preference for date D that is
\* active on D is never returned for a mission starting on D; a person whose
\* must_vacation_date preferences for D have all expired before D is not left
\* out on their account.
MustVacationOn(p, D) ==
    \E i \in DOMAIN preferences :
        /\ preferences[i].person_id = p
        /\ preferences[i].type = "must_vacation_date"
        /\ FromIsoformat(preferences[i].target) = <<D>>
        /\ (preferences[i].expires = None \/ D <= preferences[i].expires[1])

C6_MustVacationExcluded ==
    Pending =>
        LET D == DateOf(QMission.start)
        IN  \A p \in PersonIds :
                /\ MustVacationOn(p, D) => p \notin Returned
                /\ ( /\ ~MustVacationOn(p, D)
                     /\ can_fill_role(PersonOf(p), query.role)
                     /\ p \notin query.already_assigned
                     /\ ~_has_overlap(StateOf(p), QMission)
                     /\ _has_enough_rest(StateOf(p), QMission) )
                      => p \in Returned

\* one call that leaves out a person whose preference for the date is active
\* and returns a person whose preference for the same date has expired
C6_Witness ==
    /\ Pending
    /\ LET D == DateOf(QMission.start)
       IN  /\ \E p \in PersonIds :
                 /\ MustVacationOn(p, D)
                 /\ p \notin query.already_assigned
                 /\ can_fill_role(PersonOf(p), query.role)
                 /\ p \notin Returned
           /\ \E p \in Returned, i \in DOMAIN preferences :
                 /\ preferences[i].person_id = p
                 /\ preferences[i].type = "must_vacation_date"
                 /\ FromIsoformat(preferences[i].target) = <<D>>
                 /\ preferences[i].expires # None
                 /\ preferences[i].expires[1] < D

\* C7: a get_candidates call changes nothing of the scheduler, the missions or
\* the people, and a call repeating the arguments of the call before it, with
\* no commit in between, returns the same list (people, order and scores).
QueryStep == commits' = commits /\ query' # NoQuery /\ vars' # vars

C7_RankingIdempotent ==
    [][ QueryStep =>
          /\ UNCHANGED <<assignments, states, preferences, vacations, rest_cap_hours>>
          /\ (repeated' /\ query' = query) => ranked' = ranked ]_vars

\* a repeated call that returned two candidates or more, after a commit
C7_Witness ==
    /\ Pending
    /\ repeated
    /\ commits > 0
    /\ Len(ranked) >= 2

(***************************************************************************)
(* Properties of the commits (checked under Spec).                         *)
(***************************************************************************)
\* the half-open overlap test of the engine
Overlapping(a, b) == ~(a.end <= b.start \/ a.start >= b.end)

NoOverlapHeld ==
    \A p \in PersonIds :
        \A i, j \in DOMAIN states[p] :
            i # j => ~Overlapping(MissionOf(states[p][i]), MissionOf(states[p][j]))

\* C3 as stated: after any sequence of assign_to_mission calls no person holds
\* two assigned missions whose time windows overlap.
C3_NoOverlapAfterAnyCommits == NoOverlapHeld

\* C3 amended: after any sequence of assign_to_mission calls each of which
\* commits a person that get_candidates returns for that mission and role at
\* that moment, no person holds two assigned missions whose windows overlap.
C3_NoOverlapAfterRankedCommits == driven => NoOverlapHeld

\* a person holding two missions, both committed from a ranking
C3_Witness ==
    /\ driven
    /\ \E p \in PersonIds : Len(states[p]) = 2

\* positions i, j of two missions that person p holds one after the other:
\* the first ends no later than the second starts and no third lies between
ConsecutiveHeld(p, i, j) ==
    LET a == MissionOf(states[p][i])
        b == MissionOf(states[p][j])
    IN  /\ i # j
        /\ a.end <= b.start
        /\ \A k \in DOMAIN states[p] :
              k \notin {i, j} =>
                 ~( /\ a.end <= MissionOf(states[p][k]).start
                    /\ MissionOf(states[p][k]).end <= b.start )

\* every consecutive pair of missions p holds keeps the rest:
\* gap >= min(earlier duration, cap) * multiplier of p on the later mission's
\* date (both sides doubled)
RestKept(p) ==
    \A i, j \in DOMAIN states[p] :
        ConsecutiveHeld(p, i, j) =>
           LET a == MissionOf(states[p][i])
               b == MissionOf(states[p][j])
               capped == IF a.end - a.start <= rest_cap_hours
                         THEN a.end - a.start ELSE rest_cap_hours
           IN  2 * (b.start - a.end)
                  >= capped * get_rest_multiplier2(p, DateOf(b.start))

\* C4 as stated: after any commit, for every person, every consecutive pair
\* of assigned missions keeps the rest requirement.
C4_RestAfterAnyCommits == \A p \in PersonIds : RestKept(p)

\* no numeric rest_multiplier preference of p is negative, nor is the cap
NonNegativeRest(p) ==
    /\ rest_cap_hours >= 0
    /\ \A i \in DOMAIN preferences :
          ( /\ preferences[i].person_id = p
            /\ preferences[i].type = "rest_multiplier"
            /\ ParseFloat2(preferences[i].target) # <<>> )
             => ParseFloat2(preferences[i].target)[1] >= 0

\* C4 amended: when every commit commits a person that get_candidates returns
\* for that mission and role at that moment, every person whose rest
\* multipliers and rest cap are not negative keeps the rest requirement
\* between consecutive assigned missions.
C4_RestAfterRankedCommits ==
    driven => \A p \in PersonIds : NonNegativeRest(p) => RestKept(p)

\* a person with a rest_multiplier preference in force holds two missions,
\* the second starting exactly when the doubled rest ends
C4_Witness ==
    /\ driven
    /\ \E p \in PersonIds :
          /\ NonNegativeRest(p)
          /\ Len(states[p]) = 2
          /\ LET a == MissionOf(states[p][1])
                 b == MissionOf(states[p][2])
             IN  /\ get_rest_multiplier2(p, DateOf(b.start)) = 4
                 /\ b.start - a.end = 2 * Min(a.end - a.start, rest_cap_hours)
                 /\ b.start > a.end

\* the pairs <<mission, person>> the missions list
Listed ==
    { <<m, p>> \in MissionIds \X AnyIds :
         \E r \in DOMAIN assignments[m] : p \in Range(assignments[m][r]) }

NoDuplicate(s) == \A i, j \in DOMAIN s : i # j => s[i] # s[j]

\* a commit of a person the role's list of the mission already holds
Recommit ==
    /\ commits' = commits + 1
    /\ call'.role \in DOMAIN assignments[call'.mission]
    /\ call'.person_id \in Range(assignments[call'.mission][call'.role])

FieldUnits == {"1", "2", "3"}

\* Person of generate_vacations.py: id, unit (None when the row has none) and
\* roles
GenPerson(id, unit, roles) == [id |-> id, unit |-> unit, roles |-> roles]

\* the roles load_people gives a soldier of a field unit, an officer, and a
\* person with a role of no type
SoldierRoles == <<"soldier", "soldier_extra", "total_soldiers">>

OfficerRoles == <<"officer", "staff_extra", "total_command">>

\* the lists `people` generate_schedule is called with: a soldier and an
\* officer of field units and one person without unit; a field soldier and an
\* officer of a staff unit; no field person
GenPeople == {
    << GenPerson("g1", <<"1">>, SoldierRoles), GenPerson("g2", <<"2">>, OfficerRoles),
       GenPerson("g3", None, <<"cook">>) >>,
    << GenPerson("g1", <<"3">>, SoldierRoles), GenPerson("g2", <<"staff">>, OfficerRoles) >>,
    << GenPerson("g1", None, <<"cook">>), GenPerson("g2", <<"staff">>, OfficerRoles) >> }

\* the people shifts are given to
ShiftPeople == {"g1", "g2"}

\* Shift(id, date, role, person_id): the k-th shift of a trial
ShiftAt(k, pid) == [id |-> k, date |-> k, role |-> "soldier", person_id |-> pid]

\* the lists of shifts a trial can build; generate_schedule only counts the
\* shifts of each person, so the lists give the shifts of g1 first
ShiftLists ==
    UNION { { [k \in 1..n |-> ShiftAt(k, f[k])] :
                f \in { g \in [1..n -> ShiftPeople] :
                           \A k \in 1..(n - 1) : g[k] = "g2" => g[k + 1] = "g2" } }
            : n \in 0..MaxShifts }

\* what future.result() does: raises, or returns (shifts, success)
Raised == [raises |-> TRUE, shifts |-> <<>>, success |-> FALSE]

TrialOutcomes ==
    {Raised} \cup { [raises |-> FALSE, shifts |-> sh, success |-> ok] :
                       sh \in ShiftLists, ok \in BOOLEAN }

\* field_people = [p for p in people if p.unit in ['1', '2', '3']]
field_people(people) ==
    SelectSeq(people, LAMBDA p : p.unit # None /\ p.unit[1] \in FieldUnits)

\* counts: len([s for s in shifts if s.person_id == p.id]) for p in field_people
shift_counts(people, shifts) ==
    [i \in DOMAIN field_people(people) |->
        Len(SelectSeq(shifts, LAMBDA sh : sh.person_id = field_people(people)[i].id))]

\* spread = max(counts) - min(counts), and 0 without field people
spread_of(people, shifts) ==
    IF field_people(people) = <<>> THEN 0
    ELSE MaxSeq(shift_counts(people, shifts)) - MinSeq(shift_counts(people, shifts))

\* fault: an attempt is put before the attempts of equal spread
RECURSIVE InsertAttemptBeforeEqual(_, _)
InsertAttemptBeforeEqual(s, x) ==
    IF s = <<>> THEN <<x>>
    ELSE IF x.spread <= Head(s).spread THEN <<x>> \o s
    ELSE <<Head(s)>> \o InsertAttemptBeforeEqual(Tail(s), x)

\* list.sort is stable: an attempt goes after the attempts of equal spread
RECURSIVE InsertAttempt(_, _)
InsertAttempt(s, x) ==
    IF s = <<>> THEN <<x>>
    ELSE IF x.spread < Head(s).spread THEN <<x>> \o s
    ELSE <<Head(s)>> \o InsertAttempt(Tail(s), x)

\* fault: the sort left out
SortAttemptsLeftOut(s) == s

\* successful_attempts.sort(key=lambda x: x['spread'])
RECURSIVE SortAttempts(_)
SortAttempts(s) ==
    IF s = <<>> THEN <<>>
    ELSE InsertAttempt(SortAttempts(SubSeq(s, 1, Len(s) - 1)), s[Len(s)])

\* the scheduler is not in use while a schedule is generated
SchedIdle ==
    /\ preferences = Configs[1].preferences
    /\ vacations = Configs[1].vacations
    /\ rest_cap_hours = Configs[1].rest_cap_hours
    /\ assignments = [m \in MissionIds |-> <<>>]
    /\ states = [p \in PersonIds |-> <<>>]
    /\ query = NoQuery
    /\ ranked = <<>>
    /\ repeated = FALSE
    /\ commits = 0
    /\ call = NoCall
    /\ driven = TRUE
    /\ vcall = NoVCall

\* generate_schedule up to the submission of max_tries trials
GenInit ==
    /\ people_in \in GenPeople
    /\ futures \in [1..MaxTries -> TrialOutcomes]
    /\ completed = <<>>
    /\ successful_attempts = <<>>
    /\ result = <<>>
    /\ gpc = "running"

InitGen == SchedIdle /\ GenInit /\ LoadIdle /\ TrialIdle /\ FillIdle /\ CmdIdle

\* fault: the test `if success` dropped
CompleteIgnoringSuccess(i) ==
    /\ gpc = "running"
    /\ i \in DOMAIN futures
    /\ i \notin Range(completed)
    /\ completed' = Append(completed, i)
    /\ successful_attempts' =
          IF ~futures[i].raises
          THEN Append(successful_attempts,
                      [shifts |-> futures[i].shifts,
                       spread |-> spread_of(people_in, futures[i].shifts)])
          ELSE successful_attempts
    /\ UNCHANGED <<people_in, futures, result, gpc>>
    /\ UNCHANGED <<schedVars, loadVars, trialVars, fillVars, cmdVars>>

\* one round of `for future in as_completed(futures)`: future i is the next
\* to complete
Complete(i) ==
    /\ gpc = "running"
    /\ i \in DOMAIN futures
    /\ i \notin Range(completed)
    /\ completed' = Append(completed, i)
    /\ successful_attempts' =
          IF ~futures[i].raises /\ futures[i].success
          THEN Append(successful_attempts,
                      [shifts |-> futures[i].shifts,
                       spread |-> spread_of(people_in, futures[i].shifts)])
          ELSE successful_attempts
    /\ UNCHANGED <<people_in, futures, result, gpc>>
    /\ UNCHANGED <<schedVars, loadVars, trialVars, fillVars, cmdVars>>

\* after the loop: sort, return best['shifts'], or [] without a valid trial
Finish ==
    /\ gpc = "running"
    /\ Range(completed) = DOMAIN futures
    /\ result' = IF successful_attempts # <<>>
                 THEN SortAttempts(successful_attempts)[1].shifts
                 ELSE <<>>
    /\ gpc' = "returned"
    /\ UNCHANGED <<people_in, futures, completed, successful_attempts>>
    /\ UNCHANGED <<schedVars, loadVars, trialVars, fillVars, cmdVars>>

NextGen == (\E i \in 1..MaxTries : Complete(i)) \/ Finish

SpecGen == InitGen /\ [][NextGen]_vars

(***************************************************************************)
(* Properties of generate_schedule (checked under SpecGen).                *)
(***************************************************************************)
\* the trials that count: returned (shifts, True)
ValidTrial(i) == ~futures[i].raises /\ futures[i].success

\* ids of the field population
FieldIds ==
    { people_in[i].id : i \in { j \in DOMAIN people_in :
          people_in[j].unit \in { <<u>> : u \in FieldUnits } } }

ShiftCount(shifts, pid) ==
    Cardinality({ k \in DOMAIN shifts : shifts[k].person_id = pid })

\* max - min of the per-person shift count over the field population (0 when
\* there is no field population)
Spread(shifts) ==
    IF FieldIds = {} THEN 0
    ELSE LET hi == CHOOSE a \in FieldIds :
                      \A b \in FieldIds : ShiftCount(shifts, a) >= ShiftCount(shifts, b)
             lo == CHOOSE a \in FieldIds :
                      \A b \in FieldIds : ShiftCount(shifts, a) <= ShiftCount(shifts, b)
         IN  ShiftCount(shifts, hi) - ShiftCount(shifts, lo)

\* the position in the completion order of the trial to return: valid, of
\* least spread among the valid ones, and the first such to complete
BestAt(k) ==
    /\ k \in DOMAIN completed
    /\ ValidTrial(completed[k])
    /\ \A j \in DOMAIN completed :
          ValidTrial(completed[j]) =>
             /\ Spread(futures[completed[k]].shifts) <= Spread(futures[completed[j]].shifts)
             /\ ( Spread(futures[completed[j]].shifts) = Spread(futures[completed[k]].shifts)
                  => k <= j )

\* C10: when at least one trial is valid, generate_schedule returns the shifts
\* of a valid trial whose spread is the least over all valid trials, and among
\* the valid trials of least spread those of the one that completed first; a
\* trial that failed or raised is never the one returned.
C10_ReturnsFirstCompletedLeastSpread ==
    (gpc = "returned" /\ \E i \in DOMAIN futures : ValidTrial(i)) =>
        \E k \in DOMAIN completed :
            BestAt(k) /\ result = futures[completed[k]].shifts

\* two valid trials of equal spread and different shifts over a field
\* population of two, completed against the order of submission, and the
\* shifts of the first to complete returned
C10_Witness ==
    /\ gpc = "returned"
    /\ FieldIds = {"g1", "g2"}
    /\ completed = <<2, 1>>
    /\ ValidTrial(1) /\ ValidTrial(2)
    /\ futures[1].shifts # futures[2].shifts
    /\ Spread(futures[1].shifts) = Spread(futures[2].shifts)
    /\ result = futures[2].shifts

\* the valid trials among the completed ones, in the order of completion
RECURSIVE ValidCompleted(_)
ValidCompleted(done) ==
    IF done = <<>> THEN <<>>
    ELSE LET before == ValidCompleted(SubSeq(done, 1, Len(done) - 1))
             i == done[Len(done)]
         IN  IF ValidTrial(i) THEN Append(before, futures[i].shifts) ELSE before

\* C12: a trial that raises or is invalid aborts nothing: the pool of
\* candidates is at every moment exactly the valid trials completed so far,
\* generate_schedule returns only after every trial was collected, and it
\* returns the empty schedule when no trial is valid.
C12_FailureIsolation ==
    /\ gpc \in {"running", "returned"}
    /\ [k \in DOMAIN successful_attempts |-> successful_attempts[k].shifts]
          = ValidCompleted(completed)
    /\ gpc = "returned" =>
          /\ Range(completed) = DOMAIN futures
          /\ (\A i \in DOMAIN futures : ~ValidTrial(i)) => result = <<>>
          /\ (\E i \in DOMAIN futures : ValidTrial(i)) =>
                \E i \in DOMAIN futures : ValidTrial(i) /\ result = futures[i].shifts

\* a trial raised first, an invalid trial with shifts or a valid one followed,
\* and generate_schedule returned
C12_Witness ==
    /\ gpc = "returned"
    /\ completed[1] = 1
    /\ futures[1].raises
    /\ ~futures[2].raises /\ futures[2].shifts # <<>>

\* the least spread over the valid trials
IsLeastSpread(i) ==
    /\ ValidTrial(i)
    /\ \A j \in DOMAIN futures :
          ValidTrial(j) => Spread(futures[i].shifts) <= Spread(futures[j].shifts)

\* C13 as stated: the schedule returned does not depend on the order of
\* completion: it is that of the valid trial of least spread with the least
\* submission index.
C13_ChosenBySubmissionIndex ==
    (gpc = "returned" /\ \E i \in DOMAIN futures : ValidTrial(i)) =>
        \E i \in DOMAIN futures :
            /\ IsLeastSpread(i)
            /\ \A j \in DOMAIN futures : IsLeastSpread(j) => i <= j
            /\ result = futures[i].shifts

\* position of trial i in the order of completion
CompletedAt(i) == CHOOSE k \in DOMAIN completed : completed[k] = i

\* C13 amended: under every order of completion the schedule returned has the
\* least spread of the valid trials; when the valid trials of least spread all
\* carry the same shifts it is that schedule whatever the order, and otherwise
\* it is that of the trial of least spread that finished first.
C13_SpreadOrderIndependent ==
    (gpc = "returned" /\ \E i \in DOMAIN futures : ValidTrial(i)) =>
        /\ \A i \in DOMAIN futures : IsLeastSpread(i) => Spread(result) = Spread(futures[i].shifts)
        /\ \E i \in DOMAIN futures :
              /\ IsLeastSpread(i)
              /\ \A j \in DOMAIN futures : IsLeastSpread(j) => CompletedAt(i) <= CompletedAt(j)
              /\ result = futures[i].shifts

\* two valid trials of unequal spread, the one of larger spread completing
\* first, and the other one's shifts returned
C13_Witness ==
    /\ gpc = "returned"
    /\ completed = <<1, 2>>
    /\ ValidTrial(1) /\ ValidTrial(2)
    /\ Spread(futures[2].shifts) < Spread(futures[1].shifts)
    /\ result = futures[2].shifts

(***************************************************************************)
(* Malformed preference values (checked under SpecRank).                   *)
(***************************************************************************)
\* position of the first preference of p, of the given type, in force on the
\* date (0 without one)
FirstInForce(p, type, date) ==
    LET own == { i \in DOMAIN preferences :
                    /\ preferences[i].person_id = p
                    /\ preferences[i].type = type
                    /\ (preferences[i].expires = None \/ date <= preferences[i].expires[1]) }
    IN  IF own = {} THEN 0 ELSE CHOOSE i \in own : \A j \in own : i <= j

\* the doubled multiplier found by walking the preferences of p from position
\* i on and passing over every rest_multiplier preference that is not a number
RECURSIVE MultiplierFrom2(_, _, _)
MultiplierFrom2(p, date, i) ==
    IF i > Len(preferences) THEN 2
    ELSE LET pref == preferences[i]
         IN  IF /\ pref.person_id = p
                /\ pref.type = "rest_multiplier"
                /\ (pref.expires = None \/ date <= pref.expires[1])
                /\ pref.target \in {"0", "0.5", "1", "1.5", "2", "-1", "-2", "-3"}
             THEN ParseFloat2(pref.target)[1]
             ELSE MultiplierFrom2(p, date, i + 1)

\* the first rest_multiplier preference of p in force on the date is not a number
MalformedMultiplierFirst(p, date) ==
    /\ FirstInForce(p, "rest_multiplier", date) # 0
    /\ ParseFloat2(preferences[FirstInForce(p, "rest_multiplier", date)].target) = <<>>

\* p has a must_vacation_date preference in force on the date that is no date
MalformedDateInForce(p, date) ==
    \E i \in DOMAIN preferences :
        /\ preferences[i].person_id = p
        /\ preferences[i].type = "must_vacation_date"
        /\ (preferences[i].expires = None \/ date <= preferences[i].expires[1])
        /\ FromIsoformat(preferences[i].target) = <<>>

\* C16: a rest_multiplier preference in force whose target is not a number is
\* passed over (the multiplier is that of the next one in force that is a
\* number, 1.0 without one), and a must_vacation_date preference whose target
\* is no date leaves nobody out of a ranking.
C16_MalformedIgnored ==
    Pending =>
        LET date == DateOf(QMission.start)
        IN  \A p \in PersonIds :
            /\ ( /\ MalformedMultiplierFirst(p, date)
                 /\ states[p] # <<>>
                 /\ PassesAllButRest(p) )
                  => LET last == CHOOSE i \in DOMAIN states[p] :
                                   /\ MissionOf(states[p][i]).end = last_mission_end(StateOf(p))
                                   /\ \A j \in 1..(i - 1) :
                                         MissionOf(states[p][j]).end # last_mission_end(StateOf(p))
                         m == MissionOf(states[p][last])
                         need2 == Min(m.end - m.start, rest_cap_hours)
                                     * MultiplierFrom2(p, date, 1)
                     IN  p \in Returned <=> 2 * QMission.start >= 2 * m.end + need2
            /\ ( /\ MalformedDateInForce(p, date)
                 /\ ~MustVacationOn(p, date)
                 /\ can_fill_role(PersonOf(p), query.role)
                 /\ p \notin query.already_assigned
                 /\ ~_has_overlap(StateOf(p), QMission)
                 /\ _has_enough_rest(StateOf(p), QMission) )
                  => p \in Returned

\* one ranking returns a person holding a mission whose first rest_multiplier
\* preference in force is not a number and whose multiplier is not 1.0, at the
\* very end of the rest, and a person with a must_vacation_date that is no date
C16_Witness ==
    /\ Pending
    /\ LET date == DateOf(QMission.start)
       IN  /\ \E p \in Returned :
                 /\ MalformedMultiplierFirst(p, date)
                 /\ states[p] # <<>>
                 /\ MultiplierFrom2(p, date, 1) # 2
                 /\ 2 * QMission.start = RestBound2(p)
           /\ \E p \in Returned : MalformedDateInForce(p, date)

(***************************************************************************)
(* Fairness (checked under SpecRank).                                      *)
(***************************************************************************)
\* hours assigned to p, and the vacation records of p
HoursOf(p) ==
    LET held == states[p]
    IN  SumSeq([i \in DOMAIN held |-> MissionOf(held[i]).end - MissionOf(held[i]).start])

VacationDaysOf(p) == Cardinality({ i \in DOMAIN vacations : vacations[i].person_id = p })

\* ratio(a) < ratio(b), the ratio being hours / (vacation days + 1)
LowerRatio(a, b) ==
    HoursOf(a) * (VacationDaysOf(b) + 1) < HoursOf(b) * (VacationDaysOf(a) + 1)

\* C20: of two candidates of one ranking with the same primary role that
\* differ in nothing but the ratio hours / (vacation days + 1), the one with
\* the lower ratio scores no higher, and so is ranked no later.
C20_LowerRatioScoresNoHigher ==
    Pending =>
        \A i, j \in DOMAIN ranked :
            ( /\ PersonOf(ranked[i].person).role = PersonOf(ranked[j].person).role
              /\ ranked[i].vacation_penalty = ranked[j].vacation_penalty
              /\ ranked[i].preference_score = ranked[j].preference_score
              /\ ranked[i].unit_cohesion = ranked[j].unit_cohesion
              /\ ranked[i].role_match = ranked[j].role_match
              /\ LowerRatio(ranked[i].person, ranked[j].person) )
               => /\ ranked[i].total_score <= ranked[j].total_score
                  /\ i <= j

(***************************************************************************)
(* src/csv_store.py: add_vacation, remove_vacation.  SpecVac: the vacation *)
(* list is edited and a Scheduler is built from it and from the missions'  *)
(* stored assignments.                                                     *)
(***************************************************************************)
VacationDates == {0, 1}

Descriptions == {"leave", "sick"}

\* Vacation(person_id, date, description)
Vacation(pid, date, description) ==
    [person_id |-> pid, date |-> date, description |-> description]

\* fault: the existing record is not removed first
add_vacation_append_only(vs, person_id, date, description) ==
    Append(vs, Vacation(person_id, date, description))

\* csv_store.add_vacation
add_vacation(vs, person_id, date, description) ==
    Append(SelectSeq(vs, LAMBDA v : ~(v.person_id = person_id /\ v.date = date)),
           Vacation(person_id, date, description))

\* csv_store.remove_vacation
remove_vacation(vs, person_id, date) ==
    SelectSeq(vs, LAMBDA v : ~(v.person_id = person_id /\ v.date = date))

\* assignments the missions carry when they are loaded: none; p2 on Base and
\* p3 on the patrol of day 0, both as soldier; p3 on Base and p2 on that patrol
StoredAssignments == {
    [m \in MissionIds |-> <<>>],
    [m \in MissionIds |-> IF m = 1 THEN [soldier |-> <<"p2">>]
                          ELSE IF m = 2 THEN [soldier |-> <<"p3">>]
                          ELSE <<>>],
    [m \in MissionIds |-> IF m = 1 THEN [soldier |-> <<"p3">>]
                          ELSE IF m = 2 THEN [soldier |-> <<"p2">>]
                          ELSE <<>>] }

\* how often a mission's assignments name a person
occurrences(asg_m, pid) ==
    LET in_role(r) == Len(SelectSeq(asg_m[r], LAMBDA x : x = pid))
        sum[rs \in SUBSET DOMAIN asg_m] ==
            IF rs = {} THEN 0
            ELSE LET r == CHOOSE x \in rs : TRUE IN in_role(r) + sum[rs \ {r}]
    IN  sum[DOMAIN asg_m]

\* the missions from position m on, each as often as it names the person
RECURSIVE missions_naming(_, _, _)
missions_naming(asg, pid, m) ==
    IF m > Len(asg) THEN <<>>
    ELSE [k \in 1..occurrences(asg[m], pid) |-> m] \o missions_naming(asg, pid, m + 1)

\* fault: the existing assignments are not loaded
states_from_nothing(asg) == [p \in PersonIds |-> <<>>]

\* Scheduler.__init__: missions_assigned of every person, from the missions
states_from(asg) == [p \in PersonIds |-> missions_naming(asg, p, 1)]

InitVac ==
    /\ \E c \in DOMAIN Configs :
          /\ preferences = Configs[c].preferences
          /\ vacations = Configs[c].vacations
          /\ rest_cap_hours = Configs[c].rest_cap_hours
    /\ assignments \in StoredAssignments
    /\ states = states_from(assignments)
    /\ query = NoQuery
    /\ ranked = <<>>
    /\ repeated = FALSE
    /\ commits = 0
    /\ call = NoCall
    /\ driven = TRUE
    /\ vcall = NoVCall
    /\ GenIdle
    /\ LoadIdle
    /\ TrialIdle
    /\ FillIdle
    /\ CmdIdle

AddVacation(person_id, date, description) ==
    /\ vcall.seq < MaxVacationCalls
    /\ vacations' = add_vacation(vacations, person_id, date, description)
    /\ vcall' = [op |-> "add", person_id |-> person_id, date |-> date,
                 description |-> description, seq |-> vcall.seq + 1]
    /\ UNCHANGED <<assignments, states, preferences, rest_cap_hours,
                   query, ranked, repeated, commits, call, driven>>
    /\ UNCHANGED genVars

RemoveVacation(person_id, date) ==
    /\ vcall.seq < MaxVacationCalls
    /\ vacations' = remove_vacation(vacations, person_id, date)
    /\ vcall' = [op |-> "remove", person_id |-> person_id, date |-> date,
                 description |-> "", seq |-> vcall.seq + 1]
    /\ UNCHANGED <<assignments, states, preferences, rest_cap_hours,
                   query, ranked, repeated, commits, call, driven>>
    /\ UNCHANGED genVars

NextVac ==
    \/ \E p \in PersonIds, d \in VacationDates, x \in Descriptions : AddVacation(p, d, x)
    \/ \E p \in PersonIds, d \in VacationDates : RemoveVacation(p, d)

SpecVac == InitVac /\ [][NextVac]_vars

\* SpecScore: one edit of the vacation list, the scores taken before and after
NextScore ==
    \/ \E p \in PersonIds, d \in VacationDates, x \in Descriptions :
          vcall = NoVCall /\ AddVacation(p, d, x)
    \/ \E p \in PersonIds, d \in VacationDates :
          vcall = NoVCall /\ RemoveVacation(p, d)

SpecScore == InitVac /\ [][NextScore]_vars

(***************************************************************************)
(* Properties of the vacation list (checked under SpecVac).                *)
(***************************************************************************)
\* positions of the records of (p, d) in a vacation list
RecordsOf(vs, p, d) == { i \in DOMAIN vs : vs[i].person_id = p /\ vs[i].date = d }

\* the records of a list that are not of (p, d), in order
OthersOf(vs, p, d) == SelectSeq(vs, LAMBDA v : v.person_id # p \/ v.date # d)

\* C17: the list holds at most one record per (person, date) after any
\* sequence of add_vacation and remove_vacation calls; add_vacation leaves
\* exactly one record of its (person, date), carrying the new description, and
\* every other record as it was; remove_vacation removes the record of its
\* (person, date) and nothing else.
C17_VacationUniqueness ==
    /\ [](\A p \in PersonIds, d \in VacationDates :
              Cardinality(RecordsOf(vacations, p, d)) <= 1)
    /\ [][ vcall'.seq = vcall.seq + 1 =>
             LET p == vcall'.person_id
                 d == vcall'.date
             IN  /\ OthersOf(vacations', p, d) = OthersOf(vacations, p, d)
                 /\ vcall'.op = "add" =>
                       /\ Cardinality(RecordsOf(vacations', p, d)) = 1
                       /\ \A i \in RecordsOf(vacations', p, d) :
                             vacations'[i].description = vcall'.description
                 /\ vcall'.op = "remove" => RecordsOf(vacations', p, d) = {} ]_vars

\* add_vacation was called once, for a (person, date) the list already held
\* with other records besides, and with another description
C17_Witness ==
    /\ vcall.op = "add"
    /\ vcall.seq = 1
    /\ vcall.description = "sick"
    /\ \E c \in DOMAIN Configs :
          /\ preferences = Configs[c].preferences
          /\ Len(vacations) = Len(Configs[c].vacations)
          /\ Len(vacations) >= 2
          /\ RecordsOf(Configs[c].vacations, vcall.person_id, vcall.date) # {}

(***************************************************************************)
(* The vacation penalty (checked under SpecScore).                         *)
(***************************************************************************)
\* p passes every hard filter for mission m and role r, nobody assigned yet
EligibleFor(p, m, r) ==
    /\ can_fill_role(PersonOf(p), r)
    /\ ~has_must_vacation(p, DateOf(MissionOf(m).start))
    /\ ~_has_overlap(StateOf(p), MissionOf(m))
    /\ _has_enough_rest(StateOf(p), MissionOf(m))

\* the candidate record get_candidates builds for p, mission m and role r
CandidateOf(p, m, r) == _calculate_score(StateOf(p), MissionOf(m), r, {})

TotalOf(p, m, r) == CandidateOf(p, m, r).total_score

FairnessOf(p, m, r) == CandidateOf(p, m, r).fairness_score

\* a call that gives p a vacation record on date d, or takes it away
TogglesRecord(p, d) ==
    /\ vcall'.seq = vcall.seq + 1
    /\ vcall'.person_id = p
    /\ vcall'.date = d
    /\ (RecordsOf(vacations, p, d) = {}) # (RecordsOf(vacations', p, d) = {})

\* a person with a vacation record on the mission's date who passes the hard
\* filters is returned
VacationerReturned ==
    \A p \in PersonIds, m \in MissionIds, r \in Roles :
        ( /\ RecordsOf(vacations, p, DateOf(MissionOf(m).start)) # {}
          /\ EligibleFor(p, m, r) )
           => p \in PersonsIn(get_candidates(MissionOf(m), r, {}))

\* C19 as stated: a person with a vacation record on the mission's date who
\* passes the hard filters is returned, with a total score exactly 10000 above
\* the total score the person has without the record.
C19_TotalExactlyPenaltyHigher ==
    /\ [] VacationerReturned
    /\ [][ \A p \in PersonIds, m \in MissionIds, r \in Roles :
             ( /\ TogglesRecord(p, DateOf(MissionOf(m).start))
               /\ EligibleFor(p, m, r) )
              => LET with == IF RecordsOf(vacations, p, DateOf(MissionOf(m).start)) # {}
                             THEN TotalOf(p, m, r) ELSE TotalOf(p, m, r)'
                     without == IF RecordsOf(vacations, p, DateOf(MissionOf(m).start)) # {}
                                THEN TotalOf(p, m, r)' ELSE TotalOf(p, m, r)
                 IN  with = without + VACATION_PENALTY * ScoreScale
         ]_vars

\* C19 amended: such a person is returned, the vacation term of the score is
\* 10000 with a record on the mission's date and 0 without; the total is
\* 10000 above the total without the record apart from the change of the
\* fairness term (the record also counts in the person's vacation days), and
\* exactly 10000 above it when the person has no assigned hours.
C19_PenaltyTermExact ==
    /\ [] /\ VacationerReturned
          /\ \A p \in PersonIds, m \in MissionIds, r \in Roles :
                EligibleFor(p, m, r) =>
                   CandidateOf(p, m, r).vacation_penalty
                      = IF RecordsOf(vacations, p, DateOf(MissionOf(m).start)) # {}
                        THEN VACATION_PENALTY * ScoreScale ELSE 0
    /\ [][ \A p \in PersonIds, m \in MissionIds, r \in Roles :
             ( /\ TogglesRecord(p, DateOf(MissionOf(m).start))
               /\ EligibleFor(p, m, r) )
              => LET sign == IF RecordsOf(vacations, p, DateOf(MissionOf(m).start)) # {}
                             THEN 1 ELSE -1
                 IN  /\ TotalOf(p, m, r) - FairnessOf(p, m, r)
                          = TotalOf(p, m, r)' - FairnessOf(p, m, r)'
                               + sign * VACATION_PENALTY * ScoreScale
                     /\ HoursOf(p) = 0 => FairnessOf(p, m, r) = FairnessOf(p, m, r)'
         ]_vars

\* the vacation record of a person holding a mission was removed, the person
\* stays eligible for a mission of that date, and a peer holds hours as well
C19_Witness ==
    /\ vcall.op = "remove"
    /\ HoursOf(vcall.person_id) > 0
    /\ \E m \in MissionIds, r \in Roles :
          /\ DateOf(MissionOf(m).start) = vcall.date
          /\ EligibleFor(vcall.person_id, m, r)
          /\ CandidateOf(vcall.person_id, m, r).fairness_score > 0
    /\ Len(vacations) < Len(Configs[CHOOSE c \in DOMAIN Configs :
                                      preferences = Configs[c].preferences].vacations)

(***************************************************************************)
(* src/generate_vacations.py: load_people, the derivation of a person's    *)
(* roles from one CSV row.                                                 *)
(***************************************************************************)
MaxRows == 1           \* rows of the people file

\* cells of the columns role, secondary_roles and unit ("" is an empty cell)
RoleCells == {"", "soldier", "Medic", "commander", "samal", " cook"}

SecondaryCells == {"", "driver", "officer", "soldier, medic"}

UnitCells == {"", "1", " 2", "HQ"}

\* a row of csv.DictReader
Row(role, secondary_roles, unit) ==
    [role |-> role, secondary_roles |-> secondary_roles, unit |-> unit]

Rows == { Row(a, b, c) : a \in RoleCells, b \in SecondaryCells, c \in UnitCells }

\* str.strip() on the cells of the model
Strip(s) ==
    CASE s = " cook"  -> "cook"
      [] s = " medic" -> "medic"
      [] s = " 2"     -> "2"
      [] OTHER        -> s

\* str.lower() on the role names of the model
LowerRole(s) == IF s = "Medic" THEN "medic" ELSE s

\* str.split(',') on the secondary_roles cells of the model
SplitComma(s) == IF s = "soldier, medic" THEN <<"soldier", " medic">> ELSE <<s>>

\* any(r.lower() in names for r in roles)
AnyLower(roles, names) == \E i \in DOMAIN roles : LowerRole(roles[i]) \in names

\* if name not in roles: roles.append(name)
AddRole(roles, name) == IF name \in Range(roles) THEN roles ELSE Append(roles, name)

\* the loop over secondary_str.split(','): strip, skip empty and known names
RECURSIVE AddSecondary(_, _)
AddSecondary(roles, parts) ==
    IF parts = <<>> THEN roles
    ELSE LET r == Strip(Head(parts))
         IN AddSecondary(IF r # "" /\ r \notin Range(roles) THEN Append(roles, r)
                         ELSE roles,
                         Tail(parts))

\* "Parse Roles": the primary role, then the secondary roles
parsed_roles(row) ==
    AddSecondary(IF row.role # "" THEN <<Strip(row.role)>> ELSE <<>>,
                 IF row.secondary_roles # "" THEN SplitComma(row.secondary_roles)
                 ELSE <<>>)

\* "Unit Parsing": None for an empty cell, else the stripped cell
parsed_unit(row) == IF row.unit = "" THEN None ELSE <<Strip(row.unit)>>

is_unit_123(unit) == unit # None /\ unit[1] \in FieldUnits

\* "1. Expand Samal"
expand_samal(roles) ==
    IF AnyLower(roles, {"samal"})
    THEN LET with_officer == IF AnyLower(roles, {"officer"}) THEN roles
                             ELSE Append(roles, "officer")
         IN IF AnyLower(with_officer, {"commander"}) THEN with_officer
            ELSE Append(with_officer, "commander")
    ELSE roles

\* "2. Identify Types"
is_staff_role(roles) == AnyLower(roles, {"commander", "officer", "samal"})

is_soldier_type(roles, unit) ==
    /\ AnyLower(roles, {"soldier", "medic", "driver"})
    /\ ~is_staff_role(roles)
    /\ is_unit_123(unit)

\* "3. Add Extra Roles", the branch `if is_staff_role`
add_staff_roles(roles, unit) ==
    LET base == AddRole(AddRole(roles, "staff_extra"), "total_command")
    IN IF AnyLower(base, {"commander"}) /\ is_unit_123(unit)
       THEN AddRole(AddRole(AddRole(base, "soldier"), "total_soldiers"),
                    "soldier_extra")
       ELSE base

\* "3. Add Extra Roles", the branch `if is_soldier_type`
add_soldier_roles(roles) ==
    LET base == AddRole(AddRole(roles, "soldier_extra"), "total_soldiers")
    IN IF AnyLower(base, {"soldier"}) THEN base ELSE Append(base, "soldier")

\* "3. Add Extra Roles": both types are identified before either branch runs
add_extra_roles(roles, unit) ==
    LET staff == is_staff_role(roles)
        soldier == is_soldier_type(roles, unit)
        after_staff == IF staff THEN add_staff_roles(roles, unit) ELSE roles
    IN IF soldier THEN add_soldier_roles(after_staff) ELSE after_staff

\* "4. Final Cleanup": fighter roles are removed outside the field units
final_roles(roles, unit) ==
    IF is_unit_123(unit) THEN roles
    ELSE SelectSeq(roles, LAMBDA r : LowerRole(r) \notin {"soldier", "medic", "driver"})

\* the Person load_people builds from one row (id and name carry no rule)
load_person(row) ==
    [roles |-> final_roles(add_extra_roles(expand_samal(parsed_roles(row)),
                                           parsed_unit(row)),
                           parsed_unit(row)),
     unit |-> parsed_unit(row)]

\* the files load_people reads
RowLists == UNION { [1..n -> Rows] : n \in 0..MaxRows }

InitLoad ==
    /\ SchedIdle
    /\ GenIdle
    /\ TrialIdle
    /\ FillIdle
    /\ CmdIdle
    /\ raw_rows \in RowLists
    /\ loaded = <<>>

\* one round of `for i, row in enumerate(raw_rows)`
LoadRow ==
    /\ Len(loaded) < Len(raw_rows)
    /\ loaded' = Append(loaded, load_person(raw_rows[Len(loaded) + 1]))
    /\ UNCHANGED <<raw_rows, schedVars, schedulingVars, trialVars, fillVars, cmdVars>>

NextLoad == LoadRow

SpecLoad == InitLoad /\ [][NextLoad]_vars

\* the row declares at least one role
Declared(row) == parsed_roles(row) # <<>>

\* C18: every person loaded from a row that declares at least one role has
\* a non-empty role list after samal expansion, extra-role derivation and
\* the cleanup of the non-field units.  (Violated: a row of a non-field unit
\* that declares only soldier, medic or driver ends with no role.)
C18_RoleSetNeverEmpty ==
    \A i \in DOMAIN loaded : Declared(raw_rows[i]) => loaded[i].roles # <<>>

(***************************************************************************)
(* src/generate_vacations.py: attempt_generate, one randomized trial.      *)
(* A date (datetime or its '%Y-%m-%d' string) is a day number.  A score is *)
(* kept exact as the pair (pow8, rest) that stands for                     *)
(* pow8 * 1000000 + rest, where pow8 is projected_total ** 8.              *)
(***************************************************************************)
MaxDays == 4           \* days of the campaign of a trial

ExampleDays == 10      \* days of the campaign of the 2-of-3 example

\* Person(id, name, roles, unit, unavailable_dates, preferences)
TrialPerson(id, roles, unit, unavailable_dates, prefs) ==
    [id |-> id, roles |-> roles, unit |-> unit,
     unavailable_dates |-> unavailable_dates, preferences |-> prefs]

\* ShiftRequirement(role, count): count is an int or a list of ints
IntCount(role, n) == [role |-> role, kind |-> "int", count |-> n]

ListCount(role, s) == [role |-> role, kind |-> "list", count |-> s]

\* the people lists of the trials: two soldiers, the second away on day 2
\* or on day 1; a field commander, a soldier who prefers weekends off and
\* a medic of the staff unit
TrialPeople == {
    << TrialPerson("t1", <<"soldier">>, <<"1">>, {}, <<>>),
       TrialPerson("t2", <<"soldier">>, <<"2">>, {2}, <<>>) >>,
    << TrialPerson("t1", <<"soldier">>, <<"1">>, {}, <<>>),
       TrialPerson("t2", <<"soldier">>, <<"1">>, {1}, <<>>) >>,
    << TrialPerson("t1", <<"commander", "staff_extra", "total_command", "soldier",
                           "total_soldiers", "soldier_extra">>, <<"1">>, {}, <<>>),
       TrialPerson("t2", <<"soldier", "soldier_extra", "total_soldiers">>,
                   <<"1">>, {}, <<"prefer_weekend">>),
       TrialPerson("t3", <<"medic">>, <<"staff">>, {}, <<"prefer_weekday">>) >> }

\* the requirement lists of the trials
TrialRequirements == {
    << IntCount("soldier", 2) >>,
    << IntCount("medic", 1), IntCount("total_soldiers", 1) >>,
    << IntCount("soldier", 1), ListCount("total_soldiers", <<1, 1, 1, 1, 1, 0, 1>>) >>,
    << ListCount("soldier", <<1, 1, 1, 1, 1>>) >> }

\* the three interchangeable soldiers of the example, soldier 2 per day
ExamplePeople ==
    << TrialPerson("t1", <<"soldier">>, None, {}, <<>>),
       TrialPerson("t2", <<"soldier">>, None, {}, <<>>),
       TrialPerson("t3", <<"soldier">>, None, {}, <<>>) >>

ExampleRequirements == << IntCount("soldier", 2) >>

\* the values random.random() * 1000 is drawn from: the least value, and
\* one above every multiple of 100 below 1000 (all other terms of a score
\* are multiples of 100)
JitterValues == {0, 999}

PersonIdsOf(people) == { people[i].id : i \in DOMAIN people }

\* the record of the locals a shift updates
Locals ==
    [shifts |-> trial_shifts, shift_counts |-> trial_shift_counts,
     last_shift_date |-> last_shift_date, work_streaks |-> work_streaks,
     role_counts |-> role_counts]

\* role_counts[pid].get(role, 0)
RoleCountOf(rc, pid, role) == IF role \in DOMAIN rc[pid] THEN rc[pid][role] ELSE 0

\* shifts.append(Shift(...)) and the counters updated with it
add_shift(L, day, role, pid) ==
    [shifts |-> Append(L.shifts, [date |-> day, role |-> role, person_id |-> pid]),
     shift_counts |-> [L.shift_counts EXCEPT ![pid] = @ + 1],
     last_shift_date |-> [L.last_shift_date EXCEPT ![pid] = <<day>>],
     work_streaks |-> [L.work_streaks EXCEPT ![pid] = @ + 1],
     role_counts |-> [L.role_counts EXCEPT ![pid] =
                         [r \in DOMAIN @ \cup {role} |->
                             IF r = role THEN RoleCountOf(L.role_counts, pid, role) + 1
                             ELSE @[r]]]]

\* a loop that adds one shift per item, in order
RECURSIVE add_shifts(_, _, _)
add_shifts(L, day, items) ==
    IF items = <<>> THEN L
    ELSE add_shifts(add_shift(L, day, Head(items).role, Head(items).person_id),
                    day, Tail(items))

\* fault: the unavailable dates are not looked at
available_everyone(day) == arg_people

\* available = [p for p in people if day_str not in p.unavailable_dates]
available(day) == SelectSeq(arg_people, LAMBDA p : day \notin p.unavailable_dates)

is_alat(day) == arg_alat_end_date # None /\ day <= arg_alat_end_date[1]

is_post_alat_week(day) ==
    /\ arg_alat_end_date # None
    /\ arg_alat_end_date[1] < day
    /\ day <= arg_alat_end_date[1] + 7

is_saturday(day) == Weekday(day) = 5

\* the role name of a shift of the special period: the first role that is
\* commander, officer, medic, driver, mp or rsp, else soldier, else the
\* first role, else on_duty
alat_role(person) ==
    LET named == SelectSeq(person.roles,
                           LAMBDA r : LowerRole(r) \in {"commander", "officer", "medic",
                                                        "driver", "mp", "rsp"})
    IN IF named # <<>> THEN named[1]
       ELSE IF "soldier" \in Range(person.roles) THEN "soldier"
       ELSE IF person.roles # <<>> THEN person.roles[1]
       ELSE "on_duty"

\* the count of a requirement on a day, before the boost: the int, or the
\* entry of the list at day.weekday() (the first entry for a short list)
needed_of(req, day) ==
    IF req.kind = "int" THEN req.count
    ELSE IF Weekday(day) < Len(req.count) THEN req.count[Weekday(day) + 1]
    ELSE req.count[1]

\* `req.role == 'total_soldiers' and boost > 0 and day_str in boost_dates`
is_boosted(req, day) ==
    req.role = "total_soldiers" /\ arg_boost > 0 /\ day \in arg_boost_dates

\* the dict appended to daily_reqs for one requirement
daily_req(req, day) ==
    LET needed == needed_of(req, day) + IF is_boosted(req, day) THEN arg_boost ELSE 0
    IN [role |-> req.role, total |-> needed, remaining |-> needed,
        rarity |-> Cardinality({ i \in DOMAIN arg_people :
                                    req.role \in Range(arg_people[i].roles) })]

\* daily_reqs.sort(key=lambda x: x['rarity']): a stable sort
RECURSIVE InsertReq(_, _)
InsertReq(sorted, r) ==
    IF sorted = <<>> THEN <<r>>
    ELSE IF sorted[Len(sorted)].rarity <= r.rarity THEN Append(sorted, r)
    ELSE Append(InsertReq(SubSeq(sorted, 1, Len(sorted) - 1), r), sorted[Len(sorted)])

RECURSIVE SortReqs(_)
SortReqs(s) ==
    IF s = <<>> THEN <<>>
    ELSE InsertReq(SortReqs(SubSeq(s, 1, Len(s) - 1)), s[Len(s)])

daily_reqs_of(day) ==
    SortReqs([i \in DOMAIN arg_requirements |-> daily_req(arg_requirements[i], day)])

\* the loop that clears work_streaks of everyone who did not work yesterday
streaks_reset(day) ==
    [pid \in DOMAIN work_streaks |->
        IF last_shift_date[pid] = None \/ last_shift_date[pid][1] # day - 1
        THEN 0 ELSE work_streaks[pid]]

days_since(person, day) ==
    IF last_shift_date[person.id] = None THEN 999
    ELSE day - last_shift_date[person.id][1]

worked_yesterday(person, day) == days_since(person, day) = 1

\* fault: the sandwich conflict excludes nobody
sandwiched_never(person, day) == FALSE

\* "Sandwich Constraint"
sandwiched(person, day) ==
    ~worked_yesterday(person, day) /\ (day + 1) \in person.unavailable_dates

\* fault: the test `person.id in assigned_today` dropped
CandidatesAssignedAgain(day) ==
    { c \in (DOMAIN daily_reqs) \X (DOMAIN available(day)) :
        /\ daily_reqs[c[1]].remaining > 0
        /\ daily_reqs[c[1]].role \in Range(available(day)[c[2]].roles)
        /\ ~sandwiched(available(day)[c[2]], day) }

\* the candidates of one round of `while total_needed > 0`: positions in
\* daily_reqs and in available, in the order the two loops visit them
Candidates(day) ==
    { c \in (DOMAIN daily_reqs) \X (DOMAIN available(day)) :
        /\ daily_reqs[c[1]].remaining > 0
        /\ available(day)[c[2]].id \notin assigned_today
        /\ daily_reqs[c[1]].role \in Range(available(day)[c[2]].roles)
        /\ ~sandwiched(available(day)[c[2]], day) }

Before(c, d) == c[1] < d[1] \/ (c[1] = d[1] /\ c[2] < d[2])

\* "3. Preferences (prefer_weekend, prefer_weekday)"
RECURSIVE preference_terms(_, _)
preference_terms(prefs, day) ==
    IF prefs = <<>> THEN 0
    ELSE (CASE Head(prefs) = "prefer_weekend" ->
                  IF is_saturday(day) THEN 5000000 ELSE -100000
            [] Head(prefs) = "prefer_weekday" ->
                  IF is_saturday(day) THEN -5000000 ELSE 100000
            [] OTHER -> 0)
         + preference_terms(Tail(prefs), day)

\* "4. Post-ALAT Rotation Penalty"
post_alat_term(person, day) ==
    IF is_post_alat_week(day)
    THEN LET days_since_alat == day - arg_alat_end_date[1]
             period_shifts == SelectSeq(trial_shifts,
                                  LAMBDA s : /\ s.person_id = person.id
                                             /\ arg_alat_end_date[1] < s.date
                                             /\ s.date < day)
         IN IF Len(period_shifts) = days_since_alat - 1 /\ days_since_alat > 1
            THEN days_since_alat * 3000000 ELSE 0
    ELSE 0

\* the unit bonus at the end of the scoring
unit_term(person, role) ==
    IF /\ LowerRole(role) \notin {"medic", "driver"}
       /\ person.unit # None
       /\ LowerRole(person.unit[1]) # "staff"
       /\ person.unit[1] \in assigned_units_today
    THEN -500000 ELSE 0

\* the score of (person, role) on a day, with the jitter drawn for it
score_of(person, role, day, jitter) ==
    [pow8 |-> (trial_shift_counts[person.id]
               + IF Len(arg_days) >= 2 /\ day = arg_days[Len(arg_days) - 1]
                 THEN 1 ELSE 0) ^ 8,
     rest |-> - (Cardinality(person.unavailable_dates) * 5000000)
              + jitter
              + preference_terms(person.preferences, day)
              + (IF is_saturday(day)
                 THEN IF worked_yesterday(person, day) THEN -10000000 ELSE 10000000
                 ELSE 0)
              + (IF ~worked_yesterday(person, day)
                 THEN (IF days_since(person, day) < 3 THEN 500000 ELSE 0)
                      + (IF days_since(person, day) = 2 THEN 2000000 ELSE 0)
                      + (IF days_since(person, day) < 2 THEN 1000000 ELSE 0)
                 ELSE 0)
              + (IF ~is_saturday(day) /\ work_streaks[person.id] > 0
                    /\ work_streaks[person.id] < 3
                 THEN -150000 ELSE 0)
              + post_alat_term(person, day)
              + RoleCountOf(role_counts, person.id, role) * 100
              + unit_term(person, role)]

\* a.pow8 * 1000000 + a.rest < b.pow8 * 1000000 + b.rest, without leaving
\* the 32-bit integers (every rest is below 10^9 in absolute value)
ScoreLess(a, b) ==
    IF a.pow8 - b.pow8 > 1000 THEN FALSE
    ELSE IF a.pow8 - b.pow8 < -1000 THEN TRUE
    ELSE (a.pow8 - b.pow8) * 1000000 + (a.rest - b.rest) < 0

\* best_choice after the two loops, for the jitter drawn at each candidate:
\* the first candidate that no other candidate beats (`score < best score`)
is_best_choice(c, day, jit) ==
    LET score(d) == score_of(available(day)[d[2]], daily_reqs[d[1]].role, day, jit[d])
    IN /\ c \in Candidates(day)
       /\ \A d \in Candidates(day) \ {c} :
             IF Before(d, c) THEN ScoreLess(score(c), score(d))
             ELSE ~ScoreLess(score(d), score(c))

\* fault: daily_reqs holds the ShiftRequirement objects themselves and the
\* remaining need is counted down on their count
requirements_after_fill_aliased(reqs, role) ==
    [i \in DOMAIN reqs |->
        IF reqs[i].role = role /\ reqs[i].kind = "int"
        THEN [reqs[i] EXCEPT !.count = @ - 1] ELSE reqs[i]]

\* the requirements after a shift was given out for a role: req_obj is a
\* dict of daily_reqs, built anew every day, so `req_obj['remaining'] -= 1`
\* leaves the ShiftRequirement objects as they are
requirements_after_fill(reqs, role) == reqs

\* the days the validation skips as the last two of the campaign
last_two_days == { arg_days[i] : i \in { j \in DOMAIN arg_days : j >= Len(arg_days) - 1 } }

\* the days the validation loop checks, in order
checked_days == SelectSeq(arg_days, LAMBDA d : d \notin last_two_days /\ ~is_alat(d))

\* count = len([s for s in day_shifts if s.role == req.role])
count_on(shifts, d, role) ==
    Len(SelectSeq(shifts, LAMBDA s : s.date = d /\ s.role = role))

\* the loop over requirements for one checked day: "ok" when it runs to
\* its end, "invalid" at the first count below the target, "raised" when
\* target_count is a list (`target_count += boost`, `count < target_count`)
RECURSIVE validate_day(_, _)
validate_day(d, reqs) ==
    IF reqs = <<>> THEN "ok"
    ELSE IF Head(reqs).kind = "list" THEN "raised"
    ELSE IF count_on(trial_shifts, d, Head(reqs).role)
              < Head(reqs).count + IF is_boosted(Head(reqs), d) THEN arg_boost ELSE 0
         THEN "invalid"
    ELSE validate_day(d, Tail(reqs))

\* the validation loop over the days
RECURSIVE validate(_)
validate(ds) ==
    IF ds = <<>> THEN "valid"
    ELSE IF validate_day(Head(ds), arg_requirements) = "ok" THEN validate(Tail(ds))
    ELSE validate_day(Head(ds), arg_requirements)

\* fault: only the shifts of people available on the day are copied
yesterday_shifts_available(day) ==
    SelectSeq(trial_shifts,
              LAMBDA s : /\ s.date = day - 1
                         /\ \E i \in DOMAIN arg_people :
                               /\ arg_people[i].id = s.person_id
                               /\ day \notin arg_people[i].unavailable_dates)

\* yesterday_shifts = [s for s in shifts if s.date == yesterday]
yesterday_shifts(day) == SelectSeq(trial_shifts, LAMBDA s : s.date = day - 1)

\* the locals of the trial take the values of L
LocalsBecome(L) ==
    /\ trial_shifts' = L.shifts
    /\ trial_shift_counts' = L.shift_counts
    /\ last_shift_date' = L.last_shift_date
    /\ work_streaks' = L.work_streaks
    /\ role_counts' = L.role_counts

\* attempt_generate is called: the locals are created (lines 289-294)
Enter ==
    /\ tpc \in {"idle", "returned", "raised"}
    /\ trial_shifts' = <<>>
    /\ trial_shift_counts' = [pid \in PersonIdsOf(arg_people) |-> 0]
    /\ last_shift_date' = [pid \in PersonIdsOf(arg_people) |-> None]
    /\ work_streaks' = [pid \in PersonIdsOf(arg_people) |-> 0]
    /\ role_counts' = [pid \in PersonIdsOf(arg_people) |-> <<>>]
    /\ day_index' = 1
    /\ daily_reqs' = <<>>
    /\ assigned_today' = {}
    /\ assigned_units_today' = {}
    /\ total_needed' = 0
    /\ trial_success' = FALSE
    /\ tpc' = "days"
    /\ UNCHANGED <<argVars, schedVars, schedulingVars, loadVars, fillVars, cmdVars>>

\* a day of the special period: everyone available works
AlatDay ==
    /\ tpc = "days"
    /\ day_index <= Len(arg_days)
    /\ is_alat(arg_days[day_index])
    /\ LocalsBecome(add_shifts(Locals, arg_days[day_index],
                               [i \in DOMAIN available(arg_days[day_index]) |->
                                   [role |-> alat_role(available(arg_days[day_index])[i]),
                                    person_id |-> available(arg_days[day_index])[i].id]]))
    /\ assigned_today' = {}
    /\ assigned_units_today' = {}
    /\ day_index' = day_index + 1
    /\ UNCHANGED <<daily_reqs, total_needed, tpc, trial_success>>
    /\ UNCHANGED <<argVars, schedVars, schedulingVars, loadVars, fillVars, cmdVars>>

\* the last day of the campaign: the shifts of yesterday are copied
CopyDay ==
    /\ tpc = "days"
    /\ day_index <= Len(arg_days)
    /\ ~is_alat(arg_days[day_index])
    /\ arg_days[day_index] = arg_days[Len(arg_days)]
    /\ LocalsBecome(add_shifts(Locals, arg_days[day_index],
                               yesterday_shifts(arg_days[day_index])))
    /\ assigned_today' = {}
    /\ assigned_units_today' = {}
    /\ day_index' = day_index + 1
    /\ UNCHANGED <<daily_reqs, total_needed, tpc, trial_success>>
    /\ UNCHANGED <<argVars, schedVars, schedulingVars, loadVars, fillVars, cmdVars>>

\* a normal day up to `while total_needed > 0`
StartDay ==
    /\ tpc = "days"
    /\ day_index <= Len(arg_days)
    /\ ~is_alat(arg_days[day_index])
    /\ arg_days[day_index] # arg_days[Len(arg_days)]
    /\ daily_reqs' = daily_reqs_of(arg_days[day_index])
    /\ total_needed' = SumSeq([i \in DOMAIN arg_requirements |->
                                  daily_req(arg_requirements[i], arg_days[day_index]).remaining])
    /\ work_streaks' = streaks_reset(arg_days[day_index])
    /\ assigned_today' = {}
    /\ assigned_units_today' = {}
    /\ tpc' = "fill"
    /\ UNCHANGED <<trial_shifts, trial_shift_counts, last_shift_date, role_counts,
                   day_index, trial_success>>
    /\ UNCHANGED <<argVars, schedVars, schedulingVars, loadVars, fillVars, cmdVars>>

\* one round of `while total_needed > 0` that finds a best_choice
Pick ==
    /\ tpc = "fill"
    /\ total_needed > 0
    /\ \E jit \in [Candidates(arg_days[day_index]) -> JitterValues] :
       \E c \in Candidates(arg_days[day_index]) :
          /\ is_best_choice(c, arg_days[day_index], jit)
          /\ LocalsBecome(add_shift(Locals, arg_days[day_index], daily_reqs[c[1]].role,
                                    available(arg_days[day_index])[c[2]].id))
          /\ assigned_today' =
                assigned_today \cup {available(arg_days[day_index])[c[2]].id}
          /\ assigned_units_today' =
                IF available(arg_days[day_index])[c[2]].unit # None
                THEN assigned_units_today \cup {available(arg_days[day_index])[c[2]].unit[1]}
                ELSE assigned_units_today
          /\ daily_reqs' = [daily_reqs EXCEPT ![c[1]].remaining = @ - 1]
          /\ arg_requirements' =
                requirements_after_fill(arg_requirements, daily_reqs[c[1]].role)
    /\ total_needed' = total_needed - 1
    /\ UNCHANGED <<day_index, tpc, trial_success>>
    /\ UNCHANGED <<arg_people, arg_days, arg_alat_end_date, arg_boost, arg_boost_dates>>
    /\ UNCHANGED <<schedVars, schedulingVars, loadVars, fillVars, cmdVars>>

\* the while loop ends: nothing is needed any more, or `if not best_choice: break`
EndDay ==
    /\ tpc = "fill"
    /\ total_needed <= 0 \/ Candidates(arg_days[day_index]) = {}
    /\ day_index' = day_index + 1
    /\ tpc' = "days"
    /\ UNCHANGED <<trial_shifts, trial_shift_counts, last_shift_date, work_streaks,
                   role_counts, daily_reqs, assigned_today, assigned_units_today,
                   total_needed, trial_success>>
    /\ UNCHANGED <<argVars, schedVars, schedulingVars, loadVars, fillVars, cmdVars>>

\* after the days: the validation, `return shifts, False` / `return shifts, True`
Return ==
    /\ tpc = "days"
    /\ day_index > Len(arg_days)
    /\ tpc' = IF validate(checked_days) = "raised" THEN "raised" ELSE "returned"
    /\ trial_success' = (validate(checked_days) = "valid")
    /\ UNCHANGED <<trial_shifts, trial_shift_counts, last_shift_date, work_streaks,
                   role_counts, day_index, daily_reqs, assigned_today,
                   assigned_units_today, total_needed>>
    /\ UNCHANGED <<argVars, schedVars, schedulingVars, loadVars, fillVars, cmdVars>>

\* days_list of generate_schedule: n consecutive days from day `start`
DaysFrom(start, n) == [i \in 1..n |-> start + i - 1]

InitTrial ==
    /\ SchedIdle
    /\ GenIdle
    /\ LoadIdle
    /\ FillIdle
    /\ CmdIdle
    /\ arg_people \in TrialPeople
    /\ arg_requirements \in TrialRequirements
    /\ arg_days \in { DaysFrom(0, n) : n \in 1..MaxDays }
    /\ arg_alat_end_date \in {None, <<0>>, <<2>>}
    /\ arg_boost \in {0, 1}
    /\ arg_boost_dates \in {{}, {1}}
    /\ trial_shifts = <<>>
    /\ trial_shift_counts = <<>>
    /\ last_shift_date = <<>>
    /\ work_streaks = <<>>
    /\ role_counts = <<>>
    /\ day_index = 0
    /\ daily_reqs = <<>>
    /\ assigned_today = {}
    /\ assigned_units_today = {}
    /\ total_needed = 0
    /\ tpc = "idle"
    /\ trial_success = FALSE

NextTrial == Enter \/ AlatDay \/ CopyDay \/ StartDay \/ Pick \/ EndDay \/ Return

SpecTrial == InitTrial /\ [][NextTrial]_vars

\* the example: ten days from any day of the week, soldier 2 per day, three
\* soldiers, nobody away, no special period, no boost
InitExample ==
    /\ SchedIdle
    /\ GenIdle
    /\ LoadIdle
    /\ FillIdle
    /\ CmdIdle
    /\ arg_people = ExamplePeople
    /\ arg_requirements = ExampleRequirements
    /\ arg_days \in { DaysFrom(start, ExampleDays) : start \in 0..6 }
    /\ arg_alat_end_date = None
    /\ arg_boost = 0
    /\ arg_boost_dates = {}
    /\ trial_shifts = <<>>
    /\ trial_shift_counts = <<>>
    /\ last_shift_date = <<>>
    /\ work_streaks = <<>>
    /\ role_counts = <<>>
    /\ day_index = 0
    /\ daily_reqs = <<>>
    /\ assigned_today = {}
    /\ assigned_units_today = {}
    /\ total_needed = 0
    /\ tpc = "idle"
    /\ trial_success = FALSE

NextExample == Enter \/ CopyDay \/ StartDay \/ Pick \/ EndDay \/ Return

SpecExample == InitExample /\ [][NextExample]_vars

\* the target of a requirement on a day, the boost included
target_on(req, day) ==
    needed_of(req, day) + IF is_boosted(req, day) THEN arg_boost ELSE 0

\* every day that is neither of the special period nor the final day shows,
\* for every requirement, at least its target
TargetsMet ==
    \A i \in DOMAIN arg_days :
        (~is_alat(arg_days[i]) /\ i # Len(arg_days)) =>
            \A k \in DOMAIN arg_requirements :
                count_on(trial_shifts, arg_days[i], arg_requirements[k].role)
                    >= target_on(arg_requirements[k], arg_days[i])

\* C11: when attempt_generate is over, it has reported the trial valid if
\* and only if every required role has at least its target (boost
\* included) on every day that is neither in the special period nor the
\* duplicated final day.  (Violated: the validation raises on a per-weekday
\* count, and it also skips the day before the final day.)
C11_ValidIffTargetsMet ==
    tpc \in {"returned", "raised"} =>
        ((tpc = "returned" /\ trial_success) <=> TargetsMet)

\* the locals as lines 289-294 create them, from the people argument alone
FreshLocals ==
    /\ trial_shifts = <<>>
    /\ trial_shift_counts = [pid \in PersonIdsOf(arg_people) |-> 0]
    /\ last_shift_date = [pid \in PersonIdsOf(arg_people) |-> None]
    /\ work_streaks = [pid \in PersonIdsOf(arg_people) |-> 0]
    /\ role_counts = [pid \in PersonIdsOf(arg_people) |-> <<>>]

\* C14: no step of attempt_generate changes the people, the requirements,
\* the days, the end of the special period, the boost or the boost dates,
\* and every trial, whatever ran before it, starts its first day with the
\* shifts empty and the counters (shift counts, last-duty dates, streaks,
\* role counts) as they are created from the people argument.
C14_TrialsSideEffectFree ==
    /\ [][arg_people' = arg_people /\ arg_requirements' = arg_requirements
          /\ arg_days' = arg_days /\ arg_alat_end_date' = arg_alat_end_date
          /\ arg_boost' = arg_boost /\ arg_boost_dates' = arg_boost_dates]_vars
    /\ []((tpc = "days" /\ day_index = 1) => FreshLocals)

\* a trial is over that gave out shifts and counted the remaining need of a
\* role down to 0, while the requirement still carries its count
C14_Witness ==
    /\ tpc = "returned"
    /\ trial_shifts # <<>>
    /\ \E pid \in DOMAIN trial_shift_counts : trial_shift_counts[pid] > 1
    /\ \E k \in DOMAIN daily_reqs, i \in DOMAIN arg_requirements :
          /\ daily_reqs[k].role = arg_requirements[i].role
          /\ daily_reqs[k].remaining = 0
          /\ arg_requirements[i].kind = "int"
          /\ arg_requirements[i].count > 0

\* the shifts of a schedule on one day
shifts_on(shifts, d) == SelectSeq(shifts, LAMBDA s : s.date = d)

\* C15: in the example (ten days, soldier 2 per day, three soldiers, nobody
\* away, no special period, no boost) every trial reported valid has
\* exactly two shifts on each day, given to two distinct people, and two
\* shifts per day of the range in total (20 person-days).
C15_ExampleTwoPerDay ==
    (tpc = "returned" /\ trial_success) =>
        /\ Len(trial_shifts) = 2 * ExampleDays
        /\ \A i \in DOMAIN arg_days :
              /\ Len(shifts_on(trial_shifts, arg_days[i])) = 2
              /\ shifts_on(trial_shifts, arg_days[i])[1].person_id
                    # shifts_on(trial_shifts, arg_days[i])[2].person_id

\* a trial of the example was reported valid, and all three people worked
C15_Witness ==
    /\ tpc = "returned"
    /\ trial_success
    /\ arg_people = ExamplePeople
    /\ Len(arg_days) = ExampleDays
    /\ \A pid \in PersonIdsOf(arg_people) : trial_shift_counts[pid] > 0

(***************************************************************************)
(* The population of the spread (checked under SpecGen).                   *)
(***************************************************************************)
\* ids of the people who carry the aggregate role total_soldiers
AggregateIds ==
    { people_in[i].id : i \in { j \in DOMAIN people_in :
          "total_soldiers" \in Range(people_in[j].roles) } }

\* max - min of the per-person shift count over the carriers of
\* total_soldiers (0 when nobody carries it)
AggregateSpread(shifts) ==
    IF AggregateIds = {} THEN 0
    ELSE LET hi == CHOOSE a \in AggregateIds :
                      \A b \in AggregateIds : ShiftCount(shifts, a) >= ShiftCount(shifts, b)
             lo == CHOOSE a \in AggregateIds :
                      \A b \in AggregateIds : ShiftCount(shifts, a) <= ShiftCount(shifts, b)
         IN  ShiftCount(shifts, hi) - ShiftCount(shifts, lo)

\* C21: the spread recorded for every valid trial, by which the trial to
\* return is selected, is the spread of the shift counts of exactly the
\* people who carry total_soldiers.  (Violated: the spread is taken over the
\* people of units 1, 2 and 3, whatever their roles.)
C21_SpreadOverAggregateRole ==
    \A k \in DOMAIN successful_attempts :
        successful_attempts[k].spread = AggregateSpread(successful_attempts[k].shifts)

(***************************************************************************)
(* The overlap filter (checked under SpecRank).                            *)
(***************************************************************************)
\* some mission held by p and the pending mission share an instant of their
\* half-open windows
OverlapsHeld(p) ==
    \E i \in DOMAIN states[p] :
        /\ QMission.start < MissionOf(states[p][i]).end
        /\ MissionOf(states[p][i]).start < QMission.end

\* some mission held by p ends where the pending mission starts, or starts
\* where it ends
TouchesHeld(p) ==
    \E i \in DOMAIN states[p] :
        \/ MissionOf(states[p][i]).end = QMission.start
        \/ MissionOf(states[p][i]).start = QMission.end

\* every hard constraint of the pending call but the overlap constraint
PassesAllButOverlap(p) ==
    /\ can_fill_role(PersonOf(p), query.role)
    /\ p \notin query.already_assigned
    /\ ~has_must_vacation(p, DateOf(QMission.start))
    /\ _has_enough_rest(StateOf(p), QMission)

\* C22: get_candidates leaves out every person who holds a mission whose
\* window overlaps the window of the pending mission, not(end <= other.start
\* or start >= other.end), and the overlap filter leaves out nobody else: a
\* person who passes the other filters and whose missions at most touch the
\* pending one is returned.
C22_OverlapFilter ==
    Pending =>
        \A p \in PersonIds :
            /\ OverlapsHeld(p) => p \notin Returned
            /\ (~OverlapsHeld(p) /\ PassesAllButOverlap(p)) => p \in Returned

\* a person who holds a mission of positive length that touches the pending
\* mission, itself of positive length, is returned
C22_Witness ==
    /\ Pending
    /\ QMission.start < QMission.end
    /\ \E p \in PersonIds :
          /\ p \in Returned
          /\ TouchesHeld(p)
          /\ \E i \in DOMAIN states[p] :
                MissionOf(states[p][i]).start < MissionOf(states[p][i]).end

(***************************************************************************)
(* Per-weekday requirement counts (checked under SpecTrial).               *)
(***************************************************************************)
\* some requirement gives its count per weekday, and each such array has
\* seven elements
WeekdayArrays ==
    /\ \E k \in DOMAIN arg_requirements : arg_requirements[k].kind = "list"
    /\ \A k \in DOMAIN arg_requirements :
          arg_requirements[k].kind = "list" => Len(arg_requirements[k].count) = 7

\* the target of a requirement on a day: the int, or the element of the
\* array for the weekday of the day (Monday = index 0), plus the boost
WeekdayTarget(req, day) ==
    (IF req.kind = "int" THEN req.count ELSE req.count[Weekday(day) + 1])
    + IF is_boosted(req, day) THEN arg_boost ELSE 0

\* every day the validation does not exempt (the special period, the last
\* two days) shows at least the target of every requirement
WeekdayTargetsMet ==
    \A i \in DOMAIN checked_days :
        \A k \in DOMAIN arg_requirements :
            count_on(trial_shifts, checked_days[i], arg_requirements[k].role)
                >= WeekdayTarget(arg_requirements[k], checked_days[i])

\* C23: with a requirement given as a 7-element per-weekday array, a trial
\* that assigns to every role, on every non-exempt day, at least the target
\* of the day (the array element of the day's weekday) is reported valid.
\* (Violated: the validation compares the count with the array itself and
\* raises.)
C23_WeekdayArrayValid ==
    (tpc \in {"returned", "raised"} /\ WeekdayArrays /\ WeekdayTargetsMet)
        => (tpc = "returned" /\ trial_success)

(***************************************************************************)
(* The special period, the final day and the sandwich rule (checked under  *)
(* SpecTrial).                                                             *)
(***************************************************************************)
\* the days of the campaign the loop over the days has dealt with
DaysDone == { arg_days[i] : i \in { j \in DOMAIN arg_days : j < day_index } }

\* the shifts of a person on a day
shifts_of(pid, d) ==
    SelectSeq(trial_shifts, LAMBDA s : s.person_id = pid /\ s.date = d)

\* C24: on every day up to and including the end of the special period,
\* once the trial has dealt with the day, each person who is not marked
\* unavailable that day has exactly one shift and each person marked
\* unavailable has none, whatever the requirements ask for; and a trial is
\* never reported invalid on account of such a day: when all days after the
\* special period and before the last two meet their targets the trial that
\* returns is reported valid.
C24_SpecialPeriod ==
    /\ \A d \in DaysDone :
          is_alat(d) =>
             \A i \in DOMAIN arg_people :
                Len(shifts_of(arg_people[i].id, d))
                   = IF d \in arg_people[i].unavailable_dates THEN 0 ELSE 1
    /\ (tpc = "returned"
        /\ \A i \in DOMAIN checked_days :
              validate_day(checked_days[i], arg_requirements) = "ok")
          => trial_success

\* a trial returned valid although a day of the special period, on which a
\* person was unavailable and got no shift, is short of a target, and on
\* another day of the special period more people worked than a target asks
C24_Witness ==
    /\ tpc = "returned"
    /\ trial_success
    /\ \E d \in Range(arg_days), i \in DOMAIN arg_people, k \in DOMAIN arg_requirements :
          /\ is_alat(d)
          /\ d \in arg_people[i].unavailable_dates
          /\ arg_requirements[k].kind = "int"
          /\ count_on(trial_shifts, d, arg_requirements[k].role) < arg_requirements[k].count
    /\ \E d \in Range(arg_days) :
          is_alat(d) /\ Len(shifts_on(trial_shifts, d)) = Len(arg_people)

\* the final day of the campaign
FinalDay == arg_days[Len(arg_days)]

\* the (person, role) pairs of the shifts of a day, in the order of the shifts
pairs_on(d) ==
    [k \in DOMAIN shifts_on(trial_shifts, d) |->
        <<shifts_on(trial_shifts, d)[k].person_id, shifts_on(trial_shifts, d)[k].role>>]

\* C25: when the final day lies after the special period, the shifts of the
\* final day are, person by person and role by role, the shifts of the day
\* before it, and the fill loop never runs for the final day.
C25_FinalDayCopies ==
    /\ (tpc = "fill" /\ ~is_alat(FinalDay)) => arg_days[day_index] # FinalDay
    /\ (tpc \in {"days", "returned", "raised"} /\ day_index > Len(arg_days)
        /\ ~is_alat(FinalDay))
          => pairs_on(FinalDay) = pairs_on(FinalDay - 1)

\* the final day, after the special period, carries the shifts of the day
\* before it, one of them of a person marked unavailable on the final day
C25_Witness ==
    /\ tpc = "returned"
    /\ Len(arg_days) >= 2
    /\ ~is_alat(FinalDay)
    /\ \E i \in DOMAIN arg_people :
          /\ FinalDay \in arg_people[i].unavailable_dates
          /\ shifts_of(arg_people[i].id, FinalDay) # <<>>

\* a day generated normally: after the special period and not the final day
NormalDay(d) == ~is_alat(d) /\ d # FinalDay

\* person i of the people has no shift the day before d and is marked
\* unavailable the day after d
SandwichConflict(i, d) ==
    /\ shifts_of(arg_people[i].id, d - 1) = <<>>
    /\ (d + 1) \in arg_people[i].unavailable_dates

\* C26: no shift of a normally generated day d belongs to a person who has
\* no shift on day d - 1 and is marked unavailable on day d + 1.
C26_SandwichExcluded ==
    \A k \in DOMAIN trial_shifts :
        NormalDay(trial_shifts[k].date) =>
            \A i \in DOMAIN arg_people :
                arg_people[i].id = trial_shifts[k].person_id
                    => ~SandwichConflict(i, trial_shifts[k].date)

\* a normal day ended short of a role although a person qualified for it
\* was available and unassigned that day: the person had a sandwich conflict
C26_Witness ==
    /\ tpc = "returned"
    /\ \E d \in Range(arg_days), i \in DOMAIN arg_people, k \in DOMAIN arg_requirements :
          /\ NormalDay(d)
          /\ d \notin arg_people[i].unavailable_dates
          /\ SandwichConflict(i, d)
          /\ shifts_of(arg_people[i].id, d) = <<>>
          /\ arg_requirements[k].role \in Range(arg_people[i].roles)
          /\ arg_requirements[k].kind = "int"
          /\ count_on(trial_shifts, d, arg_requirements[k].role) < arg_requirements[k].count

\* attempt_generate is a sequential function that runs to its end once called
SpecTrialFair == InitTrial /\ [][NextTrial]_vars /\ WF_vars(NextTrial)

\* one round of the fill loop commits one pair for a role with remaining need
\* and lowers that need by one, or ends the day because nobody is eligible
FillStep ==
    tpc = "fill" =>
        \/ /\ Len(trial_shifts') = Len(trial_shifts) + 1
           /\ SubSeq(trial_shifts', 1, Len(trial_shifts)) = trial_shifts
           /\ trial_shifts'[Len(trial_shifts')].date = arg_days[day_index]
           /\ \E k \in DOMAIN daily_reqs :
                 /\ daily_reqs[k].remaining > 0
                 /\ daily_reqs' = [daily_reqs EXCEPT ![k].remaining = @ - 1]
                 /\ trial_shifts'[Len(trial_shifts')].role = daily_reqs[k].role
           /\ total_needed' = total_needed - 1
           /\ tpc' = "fill"
           /\ day_index' = day_index
        \/ /\ Candidates(arg_days[day_index]) = {}
           /\ trial_shifts' = trial_shifts
           /\ daily_reqs' = daily_reqs
           /\ tpc' = "days"
           /\ day_index' = day_index + 1

\* no role holds more shifts on a normal day than its target for that day
NoOverFill ==
    \A d \in Range(arg_days) : \A k \in DOMAIN arg_requirements :
        NormalDay(d) =>
            count_on(trial_shifts, d, arg_requirements[k].role)
                <= daily_req(arg_requirements[k], d).total

\* the safety half of C27: the rounds of the fill loop and the day's targets
FillNeverOverFills == [](NoOverFill) /\ [][FillStep]_vars

\* a day ended short of a role, and the trial went on to the following days
FillWitness ==
    /\ tpc = "days"
    /\ \E j \in 1..(day_index - 1), k \in DOMAIN arg_requirements :
          /\ j + 1 < day_index
          /\ NormalDay(arg_days[j])
          /\ arg_requirements[k].kind = "int"
          /\ count_on(trial_shifts, arg_days[j], arg_requirements[k].role)
                < arg_requirements[k].count

\* a trial that has started comes to `return shifts, False / True`
TrialReachesVerdict == (tpc \in {"days", "fill"}) ~> (tpc = "returned")

\* C27: every round of the fill loop commits one pair for a role with
\* remaining need or ends the day, no role receives more shifts than its
\* target for the day, and every trial reaches its validity verdict.
C27_FillTerminates == FillNeverOverFills /\ TrialReachesVerdict

(***************************************************************************)
(* fill_extra_shifts: the post-processing pass that adds 'soldier_extra'   *)
(* shifts of the people with slack to an initial schedule, first in bursts *)
(* on two days of every ISO week and then in a general pass over the days. *)
(***************************************************************************)
MaxFillDays == 5       \* longest days_list given to fill_extra_shifts

\* the fields of Person that fill_extra_shifts reads
FillPerson(id, roles, unavailable_dates) ==
    [id |-> id, roles |-> roles, unavailable_dates |-> unavailable_dates]

\* three field soldiers and a cook; four field soldiers, the second away on day 4
FillPeople == {
    << FillPerson("f1", SoldierRoles, {}), FillPerson("f2", SoldierRoles, {}),
       FillPerson("f3", SoldierRoles, {}), FillPerson("f4", <<"cook">>, {}) >>,
    << FillPerson("f1", SoldierRoles, {}), FillPerson("f2", SoldierRoles, {4}),
       FillPerson("f3", SoldierRoles, {}), FillPerson("f4", SoldierRoles, {}) >> }

\* Shift(id, date, role, person_id) without the id
FillShift(date, role, person_id) == [date |-> date, role |-> role, person_id |-> person_id]

\* the initial schedules: empty; f1 on day 4; f1 on day 7; f1 on days 6 and 7
FillInitialShifts == {
    << >>,
    << FillShift(4, "soldier", "f1") >>,
    << FillShift(7, "soldier", "f1") >>,
    << FillShift(6, "soldier", "f1"), FillShift(7, "soldier", "f1") >> }

\* d_obj.isocalendar()[1]: day 0 is Friday 2024-05-31, of ISO week 22
iso_week(d) == 22 + ((d + 4) \div 7)

\* `alat_end_date and d_obj <= alat_end_date`
fill_is_alat(d) == fill_alat_end_date # None /\ d <= fill_alat_end_date[1]

\* last_two = dates_str[-2:]
last_two ==
    { fill_days_list[i] : i \in { j \in DOMAIN fill_days_list : j >= Len(fill_days_list) - 1 } }

\* a day neither pass skips
eligible_day(d) == ~fill_is_alat(d) /\ d \notin last_two

\* the values of the dict weeks, in insertion order
RECURSIVE group_weeks(_)
group_weeks(ds) ==
    IF ds = <<>> THEN <<>>
    ELSE <<SelectSeq(ds, LAMBDA d : iso_week(d) = iso_week(Head(ds)))>>
         \o group_weeks(SelectSeq(ds, LAMBDA d : iso_week(d) # iso_week(Head(ds))))

weeks == group_weeks(SelectSeq(fill_days_list, eligible_day))

\* people_vacation[p.id] = total_days - worked
vacation_of(shifts) ==
    [pid \in { fill_people[i].id : i \in DOMAIN fill_people } |->
        Len(fill_days_list) - Len(SelectSeq(shifts, LAMBDA s : s.person_id = pid))]

\* fault: a person exactly at the target still counts as having slack
has_slack_or_equal(pv, pid) == pv[pid] >= target_min_vacation

\* `people_vacation[p.id] > target_min_vacation`
has_slack(pv, pid) == pv[pid] > target_min_vacation

\* list.sort(key=..., reverse=True): stable, the largest key first
RECURSIVE InsertDesc(_, _, _)
InsertDesc(sorted, r, key) ==
    IF sorted = <<>> THEN <<r>>
    ELSE IF key[sorted[Len(sorted)]] >= key[r] THEN Append(sorted, r)
    ELSE Append(InsertDesc(SubSeq(sorted, 1, Len(sorted) - 1), r, key), sorted[Len(sorted)])

RECURSIVE SortDesc(_, _)
SortDesc(s, key) ==
    IF s = <<>> THEN <<>>
    ELSE InsertDesc(SortDesc(SubSeq(s, 1, Len(s) - 1), key), s[Len(s)], key)

\* slack_people: over the target, with the role 'total_soldiers', most idle first
slack_people_of(pv) ==
    SortDesc(SelectSeq(fill_people, LAMBDA p : has_slack(pv, p.id)
                                               /\ "total_soldiers" \in Range(p.roles)),
             [p \in Range(fill_people) |-> pv[p.id]])

get_assignment_map(shifts) ==
    [d \in Range(fill_days_list) |->
        { shifts[i].person_id : i \in { j \in DOMAIN shifts : shifts[j].date = d } }]

\* `d_str in current_map and p.id in current_map[d_str]`
in_map(m, d, pid) == d \in DOMAIN m /\ pid \in m[d]

\* fault: the day after is not looked at
can_add_ignoring_tomorrow(p, d, m) ==
    /\ d \notin p.unavailable_dates
    /\ ~in_map(m, d, p.id)
    /\ ~in_map(m, d - 1, p.id)

\* fault: the shifts of the day itself are not looked at
can_add_ignoring_today(p, d, m) ==
    /\ d \notin p.unavailable_dates
    /\ ~in_map(m, d - 1, p.id)
    /\ ~in_map(m, d + 1, p.id)

can_add(p, d, m) ==
    /\ d \notin p.unavailable_dates
    /\ ~in_map(m, d, p.id)
    /\ ~in_map(m, d - 1, p.id)
    /\ ~in_map(m, d + 1, p.id)

\* the slack people the loops of a batch do not skip, in order
addable(d) ==
    SelectSeq(slack_people, LAMBDA p : has_slack(people_vacation, p.id)
                                       /\ can_add(p, d, assignment_map))

\* day_potentials sorted, then `[x['date'] for x in day_potentials[:2]]`
target_days_of(week_days) ==
    LET sorted == SortDesc(week_days, [d \in Range(week_days) |-> Len(addable(d))])
    IN SubSeq(sorted, 1, Min(2, Len(sorted)))

\* potential_people: the loop breaks once `limit` people are in the batch
batch(d, limit) == SubSeq(addable(d), 1, Min(limit, Len(addable(d))))

\* fault: a burst batch of any size is committed
burst_commits_any(added_count) == added_count >= 1

\* `if added_count >= 3`
burst_commits(added_count) == added_count >= 3

\* fault: the general pass commits whatever it could add
general_commits_any(current_added, added_count) == added_count > 0

\* `if total_boost >= 3 and added_count > 0`
general_commits(current_added, added_count) ==
    current_added + added_count >= 3 /\ added_count > 0

\* boosted_days.get(d_str, 0)
boosted_get(d) == IF d \in DOMAIN boosted_days THEN boosted_days[d] ELSE 0

\* fault: the shifts of a batch are put in front of the schedule
extend_in_front(shifts, potential_shifts) == potential_shifts \o shifts

\* current_shifts.extend(potential_shifts)
extend(shifts, potential_shifts) == shifts \o potential_shifts

\* a batch is committed: the shifts are appended, the map, the slack of the
\* people of the batch and boosted_days are updated
CommitBatch(d, people_of_batch, total) ==
    /\ current_shifts' = extend(current_shifts,
          [i \in DOMAIN people_of_batch |->
              FillShift(d, "soldier_extra", people_of_batch[i].id)])
    /\ assignment_map' = [assignment_map EXCEPT ![d] =
          @ \cup { people_of_batch[i].id : i \in DOMAIN people_of_batch }]
    /\ people_vacation' =
          [pid \in DOMAIN people_vacation |->
              people_vacation[pid]
                - Len(SelectSeq(people_of_batch, LAMBDA p : p.id = pid))]
    /\ boosted_days' = [x \in DOMAIN boosted_days \cup {d} |->
                           IF x = d THEN total ELSE boosted_days[x]]

\* a batch is dropped
DropBatch == UNCHANGED <<current_shifts, assignment_map, people_vacation, boosted_days>>

\* the call, up to the loop over the weeks
EnterFill ==
    /\ fpc = "idle"
    /\ IF max_boost_param <= 0
       THEN /\ current_shifts' = initial_shifts
            /\ fpc' = "returned"
            /\ UNCHANGED <<people_vacation, slack_people, assignment_map, week_index>>
       ELSE /\ people_vacation' = vacation_of(initial_shifts)
            /\ slack_people' = slack_people_of(vacation_of(initial_shifts))
            /\ current_shifts' = initial_shifts
            /\ assignment_map' = get_assignment_map(initial_shifts)
            /\ week_index' = 1
            /\ fpc' = "weeks"
    /\ UNCHANGED <<boosted_days, target_days, target_index, general_index>>
    /\ UNCHANGED <<fillArgVars, schedVars, schedulingVars, loadVars, trialVars, cmdVars>>

\* a week begins: its two days of highest potential are chosen
StartWeek ==
    /\ fpc = "weeks"
    /\ week_index <= Len(weeks)
    /\ target_days' = target_days_of(weeks[week_index])
    /\ target_index' = 1
    /\ fpc' = "burst"
    /\ UNCHANGED <<people_vacation, slack_people, current_shifts, assignment_map,
                   boosted_days, week_index, general_index>>
    /\ UNCHANGED <<fillArgVars, schedVars, schedulingVars, loadVars, trialVars, cmdVars>>

\* the burst batch of one target day
BurstDay ==
    /\ fpc = "burst"
    /\ target_index <= Len(target_days)
    /\ LET d == target_days[target_index]
           b == batch(d, max_boost_param)
       IN IF burst_commits(Len(b)) THEN CommitBatch(d, b, Len(b)) ELSE DropBatch
    /\ target_index' = target_index + 1
    /\ UNCHANGED <<slack_people, week_index, target_days, general_index, fpc>>
    /\ UNCHANGED <<fillArgVars, schedVars, schedulingVars, loadVars, trialVars, cmdVars>>

\* the target days of the week are done
EndWeek ==
    /\ fpc = "burst"
    /\ target_index > Len(target_days)
    /\ week_index' = week_index + 1
    /\ fpc' = "weeks"
    /\ UNCHANGED <<people_vacation, slack_people, current_shifts, assignment_map,
                   boosted_days, target_days, target_index, general_index>>
    /\ UNCHANGED <<fillArgVars, schedVars, schedulingVars, loadVars, trialVars, cmdVars>>

\* the weeks are done: the general pass begins
StartGeneral ==
    /\ fpc = "weeks"
    /\ week_index > Len(weeks)
    /\ general_index' = 1
    /\ fpc' = "general"
    /\ UNCHANGED <<people_vacation, slack_people, current_shifts, assignment_map,
                   boosted_days, week_index, target_days, target_index>>
    /\ UNCHANGED <<fillArgVars, schedVars, schedulingVars, loadVars, trialVars, cmdVars>>

\* one day of the general pass
GeneralDay ==
    /\ fpc = "general"
    /\ general_index <= Len(fill_days_list)
    /\ LET d == fill_days_list[general_index]
           current_added == boosted_get(d)
           b == batch(d, max_boost_param - current_added)
       IN IF /\ eligible_day(d)
             /\ current_added < max_boost_param
             /\ general_commits(current_added, Len(b))
          THEN CommitBatch(d, b, current_added + Len(b))
          ELSE DropBatch
    /\ general_index' = general_index + 1
    /\ UNCHANGED <<slack_people, week_index, target_days, target_index, fpc>>
    /\ UNCHANGED <<fillArgVars, schedVars, schedulingVars, loadVars, trialVars, cmdVars>>

\* `return current_shifts`
ReturnFill ==
    /\ fpc = "general"
    /\ general_index > Len(fill_days_list)
    /\ fpc' = "returned"
    /\ UNCHANGED <<people_vacation, slack_people, current_shifts, assignment_map,
                   boosted_days, week_index, target_days, target_index, general_index>>
    /\ UNCHANGED <<fillArgVars, schedVars, schedulingVars, loadVars, trialVars, cmdVars>>

InitFill ==
    /\ SchedIdle
    /\ GenIdle
    /\ LoadIdle
    /\ TrialIdle
    /\ CmdIdle
    /\ initial_shifts \in FillInitialShifts
    /\ fill_people \in FillPeople
    /\ fill_days_list \in { DaysFrom(start, n) : start \in {1, 3}, n \in 3..MaxFillDays }
    \* the initial schedule is a schedule of the days of days_list
    /\ \A i \in DOMAIN initial_shifts : initial_shifts[i].date \in Range(fill_days_list)
    /\ fill_alat_end_date \in {None, <<3>>}
    /\ target_min_vacation \in {2, 3}
    /\ max_boost_param \in {-1, 0, 1, 2, 3, 4}
    /\ people_vacation = <<>>
    /\ slack_people = <<>>
    /\ current_shifts = <<>>
    /\ assignment_map = <<>>
    /\ boosted_days = <<>>
    /\ week_index = 0
    /\ target_days = <<>>
    /\ target_index = 0
    /\ general_index = 0
    /\ fpc = "idle"

NextFill ==
    \/ EnterFill
    \/ StartWeek
    \/ BurstDay
    \/ EndWeek
    \/ StartGeneral
    \/ GeneralDay
    \/ ReturnFill

SpecFill == InitFill /\ [][NextFill]_vars

\* the positions in current_shifts of the shifts fill_extra_shifts added
AddedIndexes == (Len(initial_shifts) + 1)..Len(current_shifts)

\* the positions of the shifts a step of one of the two passes appends
NewIndexes ==
    IF fpc \in {"burst", "general"}
    THEN (Len(current_shifts) + 1)..Len(current_shifts')
    ELSE {}

\* entry i of fill_people
person_of_shift(s) == CHOOSE p \in Range(fill_people) : p.id = s.person_id

\* person pid has a shift in `shifts` on a day of the set ds
has_shift_on(shifts, pid, ds) ==
    \E i \in DOMAIN shifts : shifts[i].person_id = pid /\ shifts[i].date \in ds

\* every added shift is on an eligible day of an available person and no other
\* shift of the returned list, of the same person, is on that day or next to it
AddedShiftsApart ==
    \A k \in AddedIndexes :
        /\ eligible_day(current_shifts[k].date)
        /\ current_shifts[k].date \notin person_of_shift(current_shifts[k]).unavailable_dates
        /\ \A j \in DOMAIN current_shifts :
              (j # k /\ current_shifts[j].person_id = current_shifts[k].person_id)
                  => current_shifts[j].date \notin
                        { current_shifts[k].date - 1, current_shifts[k].date,
                          current_shifts[k].date + 1 }

\* when a shift is appended its person holds no shift on that day, the day
\* before or the day after
AddedWhenFree ==
    \A k \in NewIndexes :
        ~has_shift_on(current_shifts, current_shifts'[k].person_id,
                      { current_shifts'[k].date - 1, current_shifts'[k].date,
                        current_shifts'[k].date + 1 })

\* C28: every shift fill_extra_shifts adds lies on a day after the special
\* period and before the last two days, goes to a person who is not
\* unavailable and had no shift that day, and when it is added the person has
\* no shift on the day before or after; no added shift of the returned list
\* is on the same day as, or next to, another shift of its person.
C28_AddedShiftsNotAdjacent == [](AddedShiftsApart) /\ [][AddedWhenFree]_vars

\* shifts were added to a day that stayed below the cap because a person who
\* still has slack holds a shift on the day before or after
C28_Witness ==
    /\ fpc = "returned"
    /\ \E k \in AddedIndexes, i \in DOMAIN slack_people :
          LET d == current_shifts[k].date
              p == slack_people[i]
          IN /\ has_slack(people_vacation, p.id)
             /\ d \notin p.unavailable_dates
             /\ ~has_shift_on(current_shifts, p.id, {d})
             /\ has_shift_on(current_shifts, p.id, {d - 1, d + 1})
             /\ boosted_get(d) < max_boost_param

\* the number of shifts added so far on day d
added_on(d) == Cardinality({ k \in AddedIndexes : current_shifts[k].date = d })

\* every day carries no added shift, or between 3 and max_boost_param of them
BatchSizes ==
    \A d \in Range(fill_days_list) :
        added_on(d) = 0 \/ (3 <= added_on(d) /\ added_on(d) <= max_boost_param)

\* a burst batch is appended only with at least 3 shifts, a batch of the
\* general pass only when the day then carries at least 3 added shifts, and
\* a step that appends nothing changes neither the map nor anybody's slack
BatchCommitRule ==
    fpc \in {"burst", "general"} =>
        IF NewIndexes = {}
        THEN UNCHANGED <<current_shifts, assignment_map, people_vacation>>
        ELSE /\ \A k \in NewIndexes :
                   current_shifts'[k].date = current_shifts'[Len(current_shifts')].date
             /\ fpc = "burst" => Cardinality(NewIndexes) >= 3
             /\ fpc = "general" =>
                   added_on(current_shifts'[Len(current_shifts')].date)
                       + Cardinality(NewIndexes) >= 3

\* C29: every day has no added shifts or between 3 and the boost cap of
\* them; a burst batch is committed only with at least 3 additions, a
\* top-up batch only if the day's total reaches at least 3, and a batch that
\* is not committed leaves the schedule, the map and the slack unchanged.
C29_BatchRule == [](BatchSizes) /\ [][BatchCommitRule]_vars

\* one day received a batch while on another eligible day one or two people
\* could still be added and nothing was
C29_Witness ==
    /\ fpc = "returned"
    /\ \E d \in Range(fill_days_list) : added_on(d) >= 3
    /\ \E d \in Range(fill_days_list) :
          /\ eligible_day(d)
          /\ added_on(d) = 0
          /\ Len(addable(d)) \in {1, 2}

\* the idle days of a person: total_days minus the shifts held in `shifts`
idle_days(shifts, pid) ==
    Len(fill_days_list) - Len(SelectSeq(shifts, LAMBDA s : s.person_id = pid))

\* an added shift belongs to a person with the role 'total_soldiers' who is
\* left with at least the target of idle days; people_vacation is the idle
\* days of each person in current_shifts
SlackKept ==
    /\ \A k \in AddedIndexes :
          /\ "total_soldiers" \in Range(person_of_shift(current_shifts[k]).roles)
          /\ idle_days(current_shifts, current_shifts[k].person_id) >= target_min_vacation
    /\ \A pid \in DOMAIN people_vacation :
          people_vacation[pid] = idle_days(current_shifts, pid)

\* a shift goes to a person whose idle days exceed the target, and each
\* appended shift lowers the slack of its person by one
SlackStep ==
    /\ \A k \in NewIndexes :
          /\ idle_days(current_shifts, current_shifts'[k].person_id) > target_min_vacation
          /\ people_vacation'[current_shifts'[k].person_id]
                = people_vacation[current_shifts'[k].person_id] - 1
    /\ fpc \in {"burst", "general"} =>
          \A pid \in DOMAIN people_vacation :
              (\A k \in NewIndexes : current_shifts'[k].person_id # pid)
                  => people_vacation'[pid] = people_vacation[pid]

\* C30: fill_extra_shifts adds shifts only to people with the field aggregate
\* role whose remaining idle days exceed the target; each committed addition
\* lowers the person's remaining idle days by one, and nobody who received an
\* added shift ends with fewer idle days than the target.
C30_SlackAccounting == [](SlackKept) /\ [][SlackStep]_vars

\* a person received added shifts down to exactly the target and is then
\* passed over on a day where the person could otherwise be added
C30_Witness ==
    /\ fpc = "returned"
    /\ \E k \in AddedIndexes, d \in Range(fill_days_list) :
          /\ people_vacation[current_shifts[k].person_id] = target_min_vacation
          /\ eligible_day(d)
          /\ boosted_get(d) < max_boost_param
          /\ can_add(person_of_shift(current_shifts[k]), d, assignment_map)

(***************************************************************************)
(* src/app.py: assign_cmd, the command that assigns the missions of one    *)
(* date.  It loads the data files, carries the assignments of continuous   *)
(* missions forward, builds a Scheduler, asks it for candidates slot by    *)
(* slot, commits the chosen ones and saves missions.csv when a commit was  *)
(* made.                                                                   *)
(***************************************************************************)
\* the assignments column of missions.csv: nothing assigned; the patrol of
\* day 0 fully manned; that patrol with one soldier and the patrol of day 1
\* with another; the patrol of day 0 with a commander and a soldier
CmdStored == {
    [m \in MissionIds |-> <<>>],
    [m \in MissionIds |-> IF m = 2 THEN [commander |-> <<"p1">>, soldier |-> <<"p3", "p2">>]
                          ELSE <<>>],
    [m \in MissionIds |-> IF m = 2 THEN [soldier |-> <<"p2">>]
                          ELSE IF m = 4 THEN [soldier |-> <<"p3">>]
                          ELSE <<>>],
    [m \in MissionIds |-> IF m = 2 THEN [commander |-> <<"p1">>, soldier |-> <<"p2">>]
                          ELSE <<>>] }

\* datetime.time() of a time
TimeOf(t) == t % 24

\* _get_mission_base_name: the characters of the name without a final
\* " - <date>"
_get_mission_base_name(name) ==
    LET cs == Chars(name)
        seps == { k \in 1..(Len(cs) - 2) :
                     cs[k] = " " /\ cs[k + 1] = "-" /\ cs[k + 2] = " " }
    IN  IF seps = {} THEN cs
        ELSE LET k == CHOOSE x \in seps : \A y \in seps : y <= x
                 last == SubSeq(cs, k + 3, Len(cs))
             IN  IF Len(last) = 1 /\ FromIsoformat(last[1]) # None
                 THEN SubSeq(cs, 1, k - 1)
                 ELSE cs

\* _find_previous_day_mission: the id of the first mission of prev_date with
\* the same base name and start time, or 0 for None
_find_previous_day_mission(mission, prev_date) ==
    LET found == SelectSeq(Missions, LAMBDA m :
                    /\ DateOf(m.start) = prev_date
                    /\ _get_mission_base_name(m.name) = _get_mission_base_name(mission.name)
                    /\ TimeOf(m.start) = TimeOf(mission.start))
    IN  IF found = <<>> THEN 0 ELSE found[1].mission_id

\* fault: everybody is carried forward, on vacation or not
carried_everyone(person_ids, date) == person_ids

\* the list `carried` of one role
carried(person_ids, date) ==
    SelectSeq(person_ids, LAMBDA pid : ~is_on_vacation(pid, date))

\* the assignments a continuous mission without assignments receives from
\* prev_mission: the roles whose carried list is not empty
carried_assignments(prev_asg, date) ==
    [r \in { x \in DOMAIN prev_asg : carried(prev_asg[x], date) # <<>> } |->
        carried(prev_asg[r], date)]

\* day_missions, before the sort
is_day_mission(m, date) ==
    DateOf(m.start) = date /\ m.status \in {"planned", "tentative", "must"}

\* the loop `for mission in day_missions` that carries forward
carry_forward(asg, date) ==
    [mid \in MissionIds |->
        LET mission == MissionOf(mid)
            prev == _find_previous_day_mission(mission, date - 1)
        IN  IF /\ is_day_mission(mission, date)
               /\ mission.continuous
               /\ DOMAIN asg[mid] = {}
               /\ prev # 0
               /\ DOMAIN asg[prev] # {}
            THEN carried_assignments(asg[prev], date)
            ELSE asg[mid]]

\* sorted(day_missions, key=lambda m: m.start), as mission ids
sorted_day_missions(date) ==
    LET day_missions == SelectSeq(Missions, LAMBDA m : is_day_mission(m, date))
        sorted == SortDesc(day_missions, [m \in Range(day_missions) |-> 0 - m.start])
    IN  [i \in DOMAIN sorted |-> sorted[i].mission_id]

\* len(self.assignments.get(role, []))
assigned_count(asg, role) == IF role \in DOMAIN asg THEN Len(asg[role]) ELSE 0

\* Mission.unfilled_roles, and for every role of it `for slot in range(needed)`:
\* the role of each ranking request, in order
RECURSIVE slot_requests(_, _)
slot_requests(roles_required, asg) ==
    IF roles_required = <<>> THEN <<>>
    ELSE LET remaining == Head(roles_required).required
                            - assigned_count(asg, Head(roles_required).role)
         IN  [i \in 1..Max(remaining, 0) |-> Head(roles_required).role]
             \o slot_requests(Tail(roles_required), asg)

\* assign_cmd up to `for mission in sorted(day_missions, ...)`: the files are
\* loaded, the continuous missions carried forward and the Scheduler built
StartAssign ==
    /\ apc = "idle"
    /\ IF sorted_day_missions(target_date) = <<>>
       THEN /\ apc' = "done"
            /\ UNCHANGED <<assignments, states, loaded_missions, day_missions_left>>
       ELSE /\ assignments' = carry_forward(stored, target_date)
            /\ states' = states_from(carry_forward(stored, target_date))
            /\ loaded_missions' = stored
            /\ day_missions_left' = sorted_day_missions(target_date)
            /\ apc' = "missions"
    /\ changes_made' = FALSE
    /\ UNCHANGED <<stored, target_date, requests_left>>
    /\ UNCHANGED <<preferences, vacations, rest_cap_hours, query, ranked, repeated,
                   commits, call, driven, vcall>>
    /\ UNCHANGED <<schedulingVars, loadVars, trialVars, fillVars>>

\* the next mission of the day: `unfilled = mission.unfilled_roles()`
NextMission ==
    /\ apc = "missions"
    /\ day_missions_left # <<>>
    /\ LET mid == Head(day_missions_left)
           reqs == slot_requests(MissionOf(mid).roles_required, assignments[mid])
       IN  IF reqs = <<>>
           THEN /\ day_missions_left' = Tail(day_missions_left)
                /\ UNCHANGED <<requests_left, apc>>
           ELSE /\ requests_left' = reqs
                /\ apc' = "ask"
                /\ UNCHANGED day_missions_left
    /\ UNCHANGED <<stored, target_date, loaded_missions, changes_made>>
    /\ UNCHANGED <<schedVars, schedulingVars, loadVars, trialVars, fillVars>>

\* fault: the ranking is asked for with an empty already_assigned set
already_assigned_nobody(asg) == {}

\* already_assigned = set(mission.all_assigned_people())
already_assigned_of(asg) == all_assigned_people(asg)

\* one ranking request: scheduler.get_candidates(mission, role, already_assigned)
Ask ==
    /\ apc = "ask"
    /\ requests_left # <<>>
    /\ LET mid == Head(day_missions_left)
           role == Head(requests_left)
           already_assigned == already_assigned_of(assignments[mid])
           candidates == get_candidates(MissionOf(mid), role, already_assigned)
       IN  /\ query' = [mission |-> mid, role |-> role,
                        already_assigned |-> already_assigned]
           /\ ranked' = candidates
           /\ IF candidates = <<>>
              THEN requests_left' = Tail(requests_left) /\ UNCHANGED apc
              ELSE apc' = "choose" /\ UNCHANGED requests_left
    /\ repeated' = FALSE
    /\ UNCHANGED <<assignments, states, preferences, vacations, rest_cap_hours,
                   commits, call, driven, vcall>>
    /\ UNCHANGED <<stored, target_date, loaded_missions, day_missions_left, changes_made>>
    /\ UNCHANGED <<schedulingVars, loadVars, trialVars, fillVars>>

\* a candidate is chosen (or auto-accepted) and committed
Choose ==
    /\ apc = "choose"
    /\ \E choice \in DOMAIN ranked :
          assign_to_mission(query.mission, query.role, ranked[choice].person)
    /\ requests_left' = Tail(requests_left)
    /\ changes_made' = TRUE
    /\ apc' = "ask"
    /\ UNCHANGED <<stored, target_date, loaded_missions, day_missions_left>>
    /\ UNCHANGED <<schedulingVars, loadVars, trialVars, fillVars>>

\* the answer 's': the slot is skipped
Skip ==
    /\ apc = "choose"
    /\ query' = NoQuery
    /\ ranked' = <<>>
    /\ requests_left' = Tail(requests_left)
    /\ apc' = "ask"
    /\ UNCHANGED <<assignments, states, preferences, vacations, rest_cap_hours,
                   repeated, commits, call, driven, vcall>>
    /\ UNCHANGED <<stored, target_date, loaded_missions, day_missions_left, changes_made>>
    /\ UNCHANGED <<schedulingVars, loadVars, trialVars, fillVars>>

\* the slots of the mission are done
EndMission ==
    /\ apc = "ask"
    /\ requests_left = <<>>
    /\ day_missions_left' = Tail(day_missions_left)
    /\ apc' = "missions"
    /\ UNCHANGED <<stored, target_date, loaded_missions, requests_left, changes_made>>
    /\ UNCHANGED <<schedVars, schedulingVars, loadVars, trialVars, fillVars>>

\* `if changes_made: save_missions(missions_path, missions)`
FinishAssign ==
    /\ apc = "missions"
    /\ day_missions_left = <<>>
    /\ stored' = IF changes_made THEN assignments ELSE stored
    /\ apc' = "done"
    /\ UNCHANGED <<target_date, loaded_missions, day_missions_left, requests_left, changes_made>>
    /\ UNCHANGED <<schedVars, schedulingVars, loadVars, trialVars, fillVars>>

InitAssign ==
    /\ SchedInit
    /\ GenIdle
    /\ LoadIdle
    /\ TrialIdle
    /\ FillIdle
    /\ stored \in CmdStored
    /\ target_date \in {0, 1, 2}
    /\ loaded_missions = <<>>
    /\ day_missions_left = <<>>
    /\ requests_left = <<>>
    /\ changes_made = FALSE
    /\ apc = "idle"

NextAssign ==
    \/ StartAssign
    \/ NextMission
    \/ Ask
    \/ Choose
    \/ Skip
    \/ EndMission
    \/ FinishAssign

SpecAssign == InitAssign /\ [][NextAssign]_vars

\* the assignments of the missions when the Scheduler is built
at_pass_start == carry_forward(loaded_missions, target_date)

\* list a is the beginning of list b
IsPrefix(a, b) == Len(a) <= Len(b) /\ SubSeq(b, 1, Len(a)) = a

\* the list of role r in the dict asg, empty when the dict has no such key
role_list(asg, r) == IF r \in DOMAIN asg THEN asg[r] ELSE <<>>

\* the people of a list who have no vacation record on the date
not_on_vacation(person_ids, date) ==
    SelectSeq(person_ids, LAMBDA pid :
        \A i \in DOMAIN vacations :
            ~(vacations[i].person_id = pid /\ vacations[i].date = date))

\* mission mid is a continuous mission of the target date that was loaded
\* without assignments and has an equivalent the day before
CarriesForward(mid) ==
    /\ is_day_mission(MissionOf(mid), target_date)
    /\ MissionOf(mid).continuous
    /\ all_assigned_people(loaded_missions[mid]) = {}
    /\ _find_previous_day_mission(MissionOf(mid), target_date - 1) # 0

PreviousOf(mid) == _find_previous_day_mission(MissionOf(mid), target_date - 1)

\* in the dicts `now`, a mission that carries forward begins every role with
\* the previous day's assignees who are not on vacation, in their order, and
\* every other mission begins every role with what it was loaded with
CarriedIn(now) ==
    \A mid \in MissionIds : \A r \in Roles :
        IF CarriesForward(mid)
        THEN IsPrefix(not_on_vacation(role_list(loaded_missions[PreviousOf(mid)], r),
                                      target_date),
                      role_list(now[mid], r))
        ELSE IsPrefix(role_list(loaded_missions[mid], r), role_list(now[mid], r))

\* while the command runs the missions in memory hold what was carried forward
CarriedInMemory ==
    apc \in {"missions", "ask", "choose"} =>
        /\ CarriedIn(assignments)
        /\ \A mid \in MissionIds : \A r \in Roles :
              role_list(at_pass_start[mid], r)
                = IF CarriesForward(mid)
                  THEN not_on_vacation(role_list(loaded_missions[PreviousOf(mid)], r),
                                       target_date)
                  ELSE role_list(loaded_missions[mid], r)

\* somebody was carried forward and somebody on vacation was left behind
CarriedWitness ==
    /\ apc = "missions"
    /\ \E mid \in MissionIds :
          /\ CarriesForward(mid)
          /\ all_assigned_people(assignments[mid]) # {}
          /\ all_assigned_people(assignments[mid])
                # all_assigned_people(loaded_missions[PreviousOf(mid)])

\* C31: when assignments are made for a date, a continuous slot without
\* assignments receives, role by role and in order, the assignees of the
\* previous day's equivalent slot who are not unavailable that date; any
\* other slot is left as it is.  Stated of the missions the command leaves
\* behind in missions.csv.
C31_CarriedForward ==
    (apc = "done" /\ loaded_missions # <<>>) => CarriedIn(stored)

\* the roles of the soldier capability
SoldierCapability == {"soldier", "total_soldiers", "soldier_extra"}

\* the roles of the soldier capability person i holds without having declared them
GainedCapability(i) ==
    (Range(loaded[i].roles) \cap SoldierCapability) \ Range(parsed_roles(raw_rows[i]))

\* the row declares a staff role
DeclaredStaff(row) == AnyLower(parsed_roles(row), {"commander", "officer", "samal"})

\* C32: among the people holding a staff role, only those of the field units
\* 1/2/3 who were declared commander gain the soldier capability; a person
\* declared officer or samal and not commander never gains it.  (Violated: a
\* samal of a field unit is given the role commander by the samal expansion
\* and then the soldier capability.)
C32_SoldierCapabilityOnlyDeclaredCommanders ==
    \A i \in DOMAIN loaded :
        (DeclaredStaff(raw_rows[i]) /\ GainedCapability(i) # {})
            => /\ is_unit_123(parsed_unit(raw_rows[i]))
               /\ AnyLower(parsed_roles(raw_rows[i]), {"commander"})

\* the same without the people declared samal: it holds
SoldierCapabilityWithoutSamal ==
    \A i \in DOMAIN loaded :
        (DeclaredStaff(raw_rows[i]) /\ GainedCapability(i) # {}
         /\ ~AnyLower(parsed_roles(raw_rows[i]), {"samal"}))
            => /\ is_unit_123(parsed_unit(raw_rows[i]))
               /\ AnyLower(parsed_roles(raw_rows[i]), {"commander"})


\* the people of one slot, role after role, each occurrence kept
RECURSIVE assignee_list(_, _)
assignee_list(asg, roles_required) ==
    IF roles_required = <<>> THEN <<>>
    ELSE (IF Head(roles_required).role \in DOMAIN asg
          THEN asg[Head(roles_required).role] ELSE <<>>)
         \o assignee_list(asg, Tail(roles_required))

NoRepeat(s) == \A i, j \in DOMAIN s : s[i] = s[j] => i = j

\* the unfilled count of a role of a slot when the pass starts
unfilled_at_start(mid, role) ==
    LET need == SelectSeq(MissionOf(mid).roles_required, LAMBDA n : n.role = role)
    IN  IF need = <<>> THEN 0
        ELSE Max(need[1].required - assigned_count(at_pass_start[mid], role), 0)

\* every request that produced a ranking was made with the slot's full
\* assignee set of that moment
RequestsSeeAssignees ==
    (apc = "choose") =>
        query.already_assigned = all_assigned_people(assignments[query.mission])

\* nobody holds two places in one slot
NobodyTwiceInSlot ==
    (apc # "idle" /\ loaded_missions # <<>>) =>
        \A mid \in MissionIds :
            NoRepeat(assignee_list(assignments[mid], MissionOf(mid).roles_required))

\* the pass commits to a role at most its unfilled count of the start
CommitsWithinUnfilled ==
    (apc # "idle" /\ loaded_missions # <<>>) =>
        \A mid \in MissionIds :
            \A role \in DOMAIN assignments[mid] :
                assigned_count(assignments[mid], role)
                    - assigned_count(at_pass_start[mid], role)
                        <= unfilled_at_start(mid, role)

\* a commit of the pass takes a person who is not yet in the slot
ChooseStep ==
    (apc = "choose" /\ commits' # commits)
        => /\ call'.person_id \notin all_assigned_people(assignments[query.mission])
           /\ call'.mission = query.mission
           /\ call'.role = query.role

\* C33: in one assign pass every ranking request is made with already_assigned
\* equal to the slot's current assignee set, the chosen candidate is committed
\* before the next request, nobody is committed twice to one slot, and a role
\* never receives more commits than it had unfilled places at the start.
C33_DrivingProtocol ==
    /\ [](RequestsSeeAssignees /\ NobodyTwiceInSlot /\ CommitsWithinUnfilled)
    /\ [][ChooseStep]_vars

\* a request for the soldier place of a slot sees the commander committed just
\* before, who could also have served as soldier
C33_Witness ==
    /\ apc = "choose"
    /\ query.role = "soldier"
    /\ \E p \in query.already_assigned :
          /\ can_fill_role(PersonOf(p), "soldier")
          /\ p \notin all_assigned_people(at_pass_start[query.mission])
          /\ "commander" \in DOMAIN assignments[query.mission]
          /\ p \in Range(assignments[query.mission]["commander"])


\* a trial, or a call of fill_extra_shifts on a schedule
InitSchedules == InitTrial \/ InitFill

\* the function that was called is the one that runs
TrialRuns == arg_days # <<>> /\ NextTrial

FillRuns == fill_days_list # <<>> /\ NextFill

NextSchedules == TrialRuns \/ FillRuns

SpecSchedules == InitSchedules /\ [][NextSchedules]_vars

\* nobody has two shifts on one date
NoDoubleShift(shifts) ==
    \A i, j \in DOMAIN shifts :
        (shifts[i].person_id = shifts[j].person_id /\ shifts[i].date = shifts[j].date)
            => i = j

\* C34: no person has two shifts on the same date in the schedule of a trial,
\* whether the day is of the special period, generated normally or the copied
\* final day, nor in the schedule fill_extra_shifts returns for a schedule
\* that has no such pair.
C34_OneShiftPerPersonPerDay ==
    /\ NoDoubleShift(trial_shifts)
    /\ NoDoubleShift(initial_shifts) => NoDoubleShift(current_shifts)

\* a trial that went through a special day, a normal day and the copied final
\* day is over
C34_TrialWitness ==
    /\ tpc = "returned"
    /\ \E d \in Range(arg_days) : is_alat(d) /\ shifts_on(trial_shifts, d) # <<>>
    /\ \E d \in Range(arg_days) : NormalDay(d) /\ shifts_on(trial_shifts, d) # <<>>
    /\ ~is_alat(FinalDay) /\ shifts_on(trial_shifts, FinalDay) # <<>>

\* fill_extra_shifts returned a schedule with added shifts for people who
\* already had shifts
C34_FillWitness ==
    /\ fpc = "returned"
    /\ \E k \in AddedIndexes :
          \E i \in DOMAIN initial_shifts :
              initial_shifts[i].person_id = current_shifts[k].person_id


\* the shifts given to a person on a date the person is marked unavailable
ShiftsWhileAway(days) ==
    { k \in DOMAIN trial_shifts :
        /\ trial_shifts[k].date \in days
        /\ \E i \in DOMAIN arg_people :
              /\ arg_people[i].id = trial_shifts[k].person_id
              /\ trial_shifts[k].date \in arg_people[i].unavailable_dates }

\* C35: the schedule of a trial holds no shift for a person on a date listed
\* in the person's unavailable dates, on any day of the range.  (Violated on
\* the final day: the shifts of the day before are copied to it without a
\* look at the unavailable dates.)
C35_NoShiftWhileUnavailable ==
    ShiftsWhileAway(Range(arg_days)) = {}

\* the same for every day but a copied final day: it holds
NoShiftWhileAwayBeforeFinalDay ==
    ShiftsWhileAway({ d \in Range(arg_days) : is_alat(d) \/ d # FinalDay }) = {}


\* the assignments the missions carry when the Scheduler is built: those of
\* StoredAssignments, and a patrol that names p1 in two roles and an id that
\* is not among the people
BuiltAssignments ==
    StoredAssignments
        \cup { [m \in MissionIds |->
                   IF m = 2 THEN [commander |-> <<"p1">>, soldier |-> <<"p1", "ghost">>]
                   ELSE <<>>] }

\* Scheduler(people, missions, preferences, vacations) on missions that carry
\* assignments
InitBuilt ==
    /\ \E c \in DOMAIN Configs :
          /\ preferences = Configs[c].preferences
          /\ vacations = Configs[c].vacations
          /\ rest_cap_hours = Configs[c].rest_cap_hours
    /\ assignments \in BuiltAssignments
    /\ states = states_from(assignments)
    /\ query = NoQuery
    /\ ranked = <<>>
    /\ repeated = FALSE
    /\ commits = 0
    /\ call = NoCall
    /\ driven = TRUE
    /\ vcall = NoVCall
    /\ GenIdle
    /\ LoadIdle
    /\ TrialIdle
    /\ FillIdle
    /\ CmdIdle

\* assign_to_mission for a person the Scheduler knows
NextBuilt ==
    \E m \in MissionIds, r \in Roles, p \in PersonIds :
        commits < MaxCommits /\ AssignToMission(m, r, p)

SpecBuilt == InitBuilt /\ [][NextBuilt]_vars

\* C36: from a Scheduler built from the missions' existing assignments, after
\* any sequence of assign_to_mission calls for people the Scheduler knows, a
\* mission is in a person's assigned-mission list if and only if one of the
\* mission's role lists holds the person's id.
C36_StateConsistency ==
    \A m \in MissionIds, p \in PersonIds :
        m \in Range(states[p]) <=> <<m, p>> \in Listed

\* a person the missions named when the Scheduler was built has been
\* committed to a further mission
C36_Witness ==
    /\ commits > 0
    /\ \E p \in PersonIds :
          /\ call.person_id = p
          /\ Len(states[p]) >= 2
          /\ \E m \in Range(states[p]) : m # call.mission
    /\ commits < Len(states[call.person_id])


\* the mission of the pending call ends before every mission p holds starts
BeforeAllHeld(p) ==
    \A i \in DOMAIN states[p] : QMission.end <= MissionOf(states[p][i]).start

\* C37: with a non-negative rest cap and rest multiplier, get_candidates never
\* returns a person for a mission that starts before the end of the person's
\* latest-ending assigned mission, even when the mission lies entirely before
\* all the person's assigned missions and overlaps none of them.
C37_ChronologicalOnly ==
    Pending =>
        \A p \in PersonIds :
            (states[p] # <<>> /\ NonNegativeRest(p)
             /\ QMission.start < last_mission_end(StateOf(p)))
                => p \notin Returned

\* a person who passes every other filter is left out of the ranking of a
\* mission that ends before all the missions the person holds start
C37_Witness ==
    /\ Pending
    /\ \E p \in PersonIds :
          /\ states[p] # <<>>
          /\ NonNegativeRest(p)
          /\ BeforeAllHeld(p)
          /\ QMission.end < last_mission_end(StateOf(p))
          /\ PassesAllButRest(p)
          /\ p \notin Returned


\* C38: generate_schedule returns the empty schedule if and only if no trial
\* was valid; with a valid trial the schedule returned is not empty.
\* (Violated: a valid trial over a one-day range, or over requirements that ask
\* for nobody, carries no shift, and its schedule is returned as [].)
C38_EmptyIffNoValidTrial ==
    (gpc = "returned") =>
        (result = <<>> <=> \A i \in DOMAIN futures : ~ValidTrial(i))

\* one direction holds: without a valid trial the schedule returned is empty
NoValidTrialGivesEmpty ==
    (gpc = "returned" /\ \A i \in DOMAIN futures : ~ValidTrial(i)) => result = <<>>

\* a trial that is reported valid and carries no shift
ValidTrialWithoutShifts ==
    tpc = "returned" /\ trial_success /\ trial_shifts = <<>>


\* C39: with max_boost_param of 2 or less, 0 and negative values included,
\* fill_extra_shifts returns exactly the shifts it was given: no batch of a
\* day reaches the three additions a commit needs.
C39_SmallBoostNoOp ==
    (max_boost_param <= 2 /\ fpc # "idle") => current_shifts = initial_shifts

\* the call returned under a boost of 2 although a day had three people who
\* could have been added
C39_Witness ==
    /\ fpc = "returned"
    /\ max_boost_param = 2
    /\ \E i \in DOMAIN fill_days_list :
          eligible_day(fill_days_list[i]) /\ Len(addable(fill_days_list[i])) >= 3


\* the arguments of the call are left as they were given
FillInputsKept == fillArgVars' = fillArgVars

\* the schedule is the schedule given, followed by shifts of the role
\* soldier_extra
OnlyAppended ==
    (fpc # "idle") =>
        /\ IsPrefix(initial_shifts, current_shifts)
        /\ \A k \in AddedIndexes : current_shifts[k].role = "soldier_extra"

\* C40: fill_extra_shifts only appends: the schedule returned is the input
\* shifts, unchanged and in their order, followed by the added shifts; the
\* input list and the people are not changed, and every added shift carries
\* the role soldier_extra.
C40_OnlyAppends == []OnlyAppended /\ [][FillInputsKept]_vars

\* a schedule of two shifts came back with at least three more
C40_Witness ==
    /\ fpc = "returned"
    /\ Len(initial_shifts) >= 2
    /\ Len(current_shifts) >= Len(initial_shifts) + 3

====
